---- MODULE Spec2Model ----
(***************************************************************************)
(* A state-machine model of the agent execution loop (ReActAgent.step,     *)
(* ToolCallAgent.think / act / execute_tool) and of the plan-tracking      *)
(* orchestrator (PlanningFlow) of OpenManus_UIToCode.                      *)
(*                                                                         *)
(* Strings of the program are kept as sequences of string fragments, so    *)
(* that an f-string is the concatenation of its parts.  None is the        *)
(* string "None".                                                          *)
(***************************************************************************)
EXTENDS Integers, Sequences, FiniteSets, TLC

\* ------------------------------------------------------------------ bounds
\* the largest max_steps an agent is configured with
MaxSteps == 2
\* the number of tool calls the oracle proposes over one run
MaxCalls == 2
\* the number of simultaneous tool calls of the single decision cycle of OrderSpec
MaxOrderCalls == 5
\* the observation length max_observe is configured with, when configured
MaxObserve == 2
\* the number of steps of a plan the oracle proposes
MaxPlanSteps == 3
\* the number of passes of PlanningFlow.execute's while loop
MaxIterations == 4
\* the number of invocations of the bash and python_execute tools
MaxToolCalls == 3
\* the number of steps of a plan _get_current_step_index is applied to
MaxIndexedSteps == 2
\* the number of calls of PipelineAgent.execute_tool
MaxPipelineCalls == 2
MaxStageCalls == 1
\* the max_steps an MCPAgent is configured with: its tools are refreshed at
\* every REFRESH_TOOLS_INTERVAL-th step
MaxMcpSteps == 5
\* the number of tool calls the oracle proposes over one run of an MCPAgent
MaxMcpCalls == 1

\* -------------------------------------------------------------- constants
None == "None"

\* AgentState (app.schema); the run loop itself lives in app/agent/base.py
IDLE == "IDLE"
RUNNING == "RUNNING"
FINISHED == "FINISHED"

\* ToolChoice (app.schema)
AUTO == "auto"
REQUIRED == "required"
NONE == "none"
ToolChoices == {AUTO, REQUIRED, NONE}

TOOL_CALL_REQUIRED == <<"Tool calls required but none provided">>
NO_ACTION_NEEDED == <<"Thinking complete - no action needed">>
NO_CONTENT == <<"No content or commands to execute">>
NEXT_STEP_PROMPT == <<"next step prompt">>

\* the tool map of ToolCallAgent.available_tools and its special tools
AvailableTools == {"create_chat_completion", "terminate"}
SpecialToolNames == {"terminate"}

\* the names the oracle may put in a proposed call: a tool of the map, the
\* special tool, a name of no tool, and a call without a name
OracleNames == {"create_chat_completion", "terminate", "frobnicate", ""}

\* ------------------------------------------------------------------ state
VARIABLES
    state,                  \* agent.state
    messages,               \* agent.memory.messages
    tool_calls,             \* agent.tool_calls
    current_base64_image,   \* agent._current_base64_image
    current_step,           \* agent.current_step
    max_steps,              \* agent.max_steps
    tool_choices,           \* agent.tool_choices
    max_observe,            \* agent.max_observe (0 is None)
    pc,                     \* where the run is: idle, think, act, returned, raised
    act_i,                  \* act(): index of the command the for loop is at
    results,                \* act(): the local list results
    step_result,            \* what the last step() returned
    think_result,           \* what the last think() returned
    raised,                 \* the exception that left run(), or None
    calls_left,             \* how many more calls the oracle may propose
    next_id,                \* the id the oracle gives its next call
    thinks,                 \* history: number of think() calls of the run
    executed,               \* history: ids whose execute_tool was called, in order
    invoked,                \* history: ids whose tool was invoked, in order
    acts,                   \* history: number of act() calls of the run
    oracle_reply,           \* history: what the oracle answered the last think()
    env,                    \* the results the registered tools may produce
    last_outcome,           \* history: what the environment decided about the last call
    \* PlanningFlow
    fpc,                    \* where execute() is: off, start, select, running, finalize, done
    agents,                 \* flow.agents: the keys of the agents map
    primary_agent_key,      \* flow.primary_agent_key
    executor_keys,          \* flow.executor_keys
    input_text,             \* the argument of execute()
    plans,                  \* flow.planning_tool.plans
    current_step_index,     \* flow.current_step_index (NoIndex is None)
    step_info,              \* execute(): the local step_info
    executor,               \* execute(): the key of the local executor
    agent_state,            \* the state of each agent of the map
    result,                 \* execute(): the local result
    step_result_text,       \* what the last _execute_step returned
    ret,                    \* what execute() returned
    finalize_calls,         \* history: number of _finalize_plan calls
    last_write,             \* history: who wrote the last status, the store or the fallback
    last_run,               \* history: how the last executor run ended
    running,                \* history: the step indices whose executor run is in flight
    seen,                   \* history: what has happened so far in execute()
    iterations,             \* history: number of passes of the while loop
    \* PlanningAgent
    ppc,                    \* where the PlanningAgent is inside run() and think()
    active_plan,            \* the plan its planning tool holds under active_plan_id
    planning_step_index,    \* PlanningAgent.current_step_index (NoIndex is None)
    step_execution_tracker, \* PlanningAgent.step_execution_tracker
    \* tools
    bash_session,           \* Bash._session: whether it exists, started, timed out, exited
    tool_log,               \* history: how each tool invocation ended
    \* PipelineAgent
    pipeline_status,        \* PipelineAgent.pipeline_status
    output_files,           \* PipelineAgent.output_files
    pipeline_calls,         \* history: number of execute_tool calls
    pipeline_last,          \* history: the last execute_tool call and how it ended
    \* the subclasses of ToolCallAgent
    spc,                    \* where a subclass is inside its think()
    next_step_prompt,       \* agent.next_step_prompt
    browser_events,         \* history: cleanups of the browser tool and state changes
    mcp_session,            \* MCPAgent.mcp_clients.session is set
    mcp_tool_map,           \* MCPAgent.mcp_clients.tool_map (its keys)
    tool_schemas,           \* MCPAgent.tool_schemas (its keys)
    mcp_events,             \* history: why a think() of the MCPAgent ended the run, and disconnects
    working_dir,            \* SWEAgent.working_dir
    shell_dir,              \* the directory of the shell behind SWEAgent.bash
    shared_bash             \* SWEAgent.bash is the Bash of its tool collection

agentVars == <<state, messages, tool_calls, current_base64_image, current_step,
               max_steps, tool_choices, max_observe, pc, act_i, results,
               step_result, think_result, raised, calls_left, next_id, thinks,
               executed, invoked, acts, oracle_reply, env, last_outcome>>

flowVars == <<fpc, agents, primary_agent_key, executor_keys, input_text, plans,
              current_step_index, step_info, executor, agent_state, result,
              step_result_text, ret, finalize_calls, last_write, last_run, running,
              seen, iterations>>

planVars == <<ppc, active_plan, planning_step_index, step_execution_tracker>>

toolVars == <<bash_session, tool_log>>

pipelineVars == <<pipeline_status, output_files, pipeline_calls, pipeline_last>>

mcpVars == <<mcp_session, mcp_tool_map, tool_schemas, mcp_events>>

sweVars == <<working_dir, shell_dir, shared_bash>>

subVars == <<spc, next_step_prompt, browser_events, mcpVars, sweVars>>

vars == <<agentVars, flowVars, planVars, toolVars, pipelineVars, subVars>>

\* ------------------------------------------------------------ app.schema
\* Message.user_message / assistant_message / from_tool_calls / tool_message
UserMessage(content) ==
    [role |-> "user", content |-> content, tool_calls |-> <<>>,
     tool_call_id |-> 0, name |-> None, base64_image |-> None]

AssistantMessage(content) ==
    [role |-> "assistant", content |-> content, tool_calls |-> <<>>,
     tool_call_id |-> 0, name |-> None, base64_image |-> None]

FromToolCalls(content, calls) ==
    [role |-> "assistant", content |-> content, tool_calls |-> calls,
     tool_call_id |-> 0, name |-> None, base64_image |-> None]

ToolMessage(content, id, name, image) ==
    [role |-> "tool", content |-> content, tool_calls |-> <<>>,
     tool_call_id |-> id, name |-> name, base64_image |-> image]

\* ---------------------------------------------------------- app.tool.base
\* ToolResult: output, error, base64_image, system; each None, empty or set
ToolResult(output, error, image, system) ==
    [output |-> output, error |-> error, base64_image |-> image, system |-> system]

Truthy(v) == v # None /\ v # ""

\* ToolResult.__bool__: any field is truthy
ResultBool(r) ==
    Truthy(r.output) \/ Truthy(r.error) \/ Truthy(r.base64_image) \/ Truthy(r.system)

\* ToolResult.__str__: None when there is neither an error nor an output, and
\* str() of such a result raises TypeError
ResultStr(r) == IF Truthy(r.error) THEN <<"Error: ", r.error>>
                ELSE IF r.output = None THEN <<None>>
                ELSE IF r.output = "" THEN <<>> ELSE <<r.output>>

StrRaises(r) == ~Truthy(r.error) /\ r.output = None

\* the results a tool invocation may come back with
ToolResults ==
    { ToolResult(None, None, None, None),
      ToolResult("out", None, None, None),
      ToolResult("", None, None, None),
      ToolResult(None, "boom", None, None),
      ToolResult("out", None, "img", None),
      ToolResult(None, None, "img", None),
      ToolResult(None, None, None, "sys") }

\* ------------------------------------------------------------- helpers
SeqsUpTo(S, n) == UNION {[1..k -> S] : k \in 0..n}

Min(a, b) == IF a < b THEN a ELSE b

\* text in s, for a string kept as a sequence of fragments
Mentions(observation, name) == \E i \in 1..Len(observation) : observation[i] = name

\* "Error:" in s: the fragments of the modelled texts that hold it
HasErrorText(observation) ==
    \E i \in 1..Len(observation) :
       observation[i] \in {"Error: ", "Error: Invalid command format",
                           "Error: Unknown tool '"}

\* s[:n] of a string kept as a sequence of fragments
Truncate(s, n) == SubSeq(s, 1, Min(n, Len(s)))

\* an act() that returns its last observation alone
JoinLast(rs) == IF rs = <<>> THEN <<>> ELSE rs[Len(rs)]

\* "\n\n".join(results)
RECURSIVE Join(_)
Join(rs) == IF rs = <<>> THEN <<>>
            ELSE IF Len(rs) = 1 THEN rs[1]
            ELSE rs[1] \o <<"\n\n">> \o Join(Tail(rs))

\* ---------------------------------------------- app/agent/toolcall.py
\* ToolCallAgent._is_special_tool
IsSpecialTool(name) == name \in SpecialToolNames

\* a decision predicate that never confirms termination
ShouldFinishExecutionNever == FALSE

\* ToolCallAgent._should_finish_execution
ShouldFinishExecution == TRUE

\* ToolCallAgent._handle_special_tool: the state it leaves
HandleSpecialTool(name, st) ==
    IF ~IsSpecialTool(name) THEN st
    ELSE IF ShouldFinishExecution THEN FINISHED ELSE st

\* what the environment decides about one call of a registered tool: whether
\* the argument payload parses, whether the tool raises, and its result
NoOutcome == [parses |-> TRUE, raises |-> FALSE,
              result |-> ToolResult(None, None, None, None)]

PlainResults == {ToolResult("out", None, None, None), ToolResult(None, "boom", None, None)}

Outcomes(name, e) ==
    IF name \notin AvailableTools THEN {NoOutcome}
    ELSE IF e = "plain"
    THEN {[parses |-> TRUE, raises |-> FALSE, result |-> r] :
            r \in IF IsSpecialTool(name) THEN {ToolResult("out", None, None, None)}
                  ELSE PlainResults}
    ELSE {[parses |-> FALSE, raises |-> FALSE, result |-> NoOutcome.result],
          [parses |-> TRUE, raises |-> TRUE, result |-> NoOutcome.result]}
         \cup {[parses |-> TRUE, raises |-> FALSE, result |-> r] :
                 r \in IF IsSpecialTool(name) THEN {ToolResult("out", None, None, None)}
                       ELSE ToolResults}

\* the observation execute_tool formats for a result (the source's backquotes
\* are written as apostrophes)
Observation(name, r) ==
    IF ResultBool(r)
    THEN <<"Observed output of cmd '", name, "' executed:\n">> \o ResultStr(r)
    ELSE <<"Cmd '", name, "' completed with no output">>

\* a problem report that leaves the tool unnamed
ToolProblemAnonymous(name, e) == <<"Error: ", "Tool encountered a problem: ", e>>

\* the text of execute_tool's except Exception branch
ToolProblem(name, e) == <<"Error: ", "Tool '", name, "' encountered a problem: ", e>>

\* execute_tool(command) over the tool map tools, from agent state st: the observation it
\* returns, the state and the captured media it leaves, and whether the tool
\* was invoked
ExecuteToolIn(tools, command, out, st, img) ==
    IF command.name = ""
    THEN [observation |-> <<"Error: Invalid command format">>,
          state |-> st, image |-> img, invoked |-> FALSE]
    ELSE IF command.name \notin tools
    THEN [observation |-> <<"Error: Unknown tool '", command.name, "'">>,
          state |-> st, image |-> img, invoked |-> FALSE]
    ELSE IF ~out.parses
    THEN [observation |-> <<"Error: ", "Error parsing arguments for ", command.name,
                            ": Invalid JSON format">>,
          state |-> st, image |-> img, invoked |-> FALSE]
    ELSE IF out.raises
    THEN [observation |-> ToolProblem(command.name, "tool error"),
          state |-> st, image |-> img, invoked |-> TRUE]
    ELSE LET st2 == HandleSpecialTool(command.name, st)
             img2 == IF Truthy(out.result.base64_image)
                     THEN out.result.base64_image ELSE img
         IN IF ResultBool(out.result) /\ StrRaises(out.result)
            THEN [observation |-> ToolProblem(command.name,
                                              "__str__ returned non-string (type NoneType)"),
                  state |-> st2, image |-> img2, invoked |-> TRUE]
            ELSE [observation |-> Observation(command.name, out.result),
                  state |-> st2, image |-> img2, invoked |-> TRUE]

\* ToolCallAgent.execute_tool(command) of an agent with the default tool map
ExecuteTool(command, out, st, img) == ExecuteToolIn(AvailableTools, command, out, st, img)

\* what the oracle answers to one ask_tool: a response with free text and
\* proposed calls, no response at all, or a failure
OracleRepliesOver(names, limit) ==
    {[kind |-> "response", content |-> c, names |-> ns] :
        c \in {<<>>, <<"text">>}, ns \in SeqsUpTo(names, limit)}
    \cup {[kind |-> k, content |-> <<>>, names |-> <<>>] :
            k \in {"none", "value_error", "token_limit", "error"}}

\* the ToolCall objects of a response: ids are fresh
CallsOf(names, first) ==
    [i \in 1..Len(names) |-> [id |-> first + i - 1, name |-> names[i]]]

TokenLimitMessage ==
    <<"Maximum token limit reached, cannot continue execution: ", "token limit exceeded">>

\* think(): the assignment self.tool_calls = response.tool_calls or []
ThinkToolCalls(calls) == calls

\* think(): the message the policy branch appends, if any
ThinkAppend(policy, content, calls, msgs) ==
    IF policy = NONE
    THEN IF content # <<>> THEN Append(msgs, AssistantMessage(content)) ELSE msgs
    ELSE Append(msgs, IF calls # <<>> THEN FromToolCalls(content, calls)
                      ELSE AssistantMessage(content))

\* a think() that asks for act() only when a tool call is pending
ThinkReturnCallsOnly(policy, content, calls) ==
    IF policy = NONE THEN content # <<>> ELSE calls # <<>>

\* think(): the value the policy branch returns
ThinkReturn(policy, content, calls) ==
    IF policy = NONE THEN content # <<>>
    ELSE IF policy = REQUIRED /\ calls = <<>> THEN TRUE
    ELSE IF policy = AUTO /\ calls = <<>> THEN content # <<>>
    ELSE calls # <<>>

\* ------------------------------------------ app/agent/base.py: the run loop
\* while state is RUNNING and current_step < max_steps: current_step += 1; step()
LoopContinues(st, cs) == st = RUNNING /\ cs < max_steps

\* the run goes on to its next step() or returns
NextIteration(st, cs) ==
    /\ pc' = IF LoopContinues(st, cs) THEN "think" ELSE "returned"
    /\ current_step' = IF LoopContinues(st, cs) THEN cs + 1 ELSE cs

\* run(): IDLE -> RUNNING, then the loop
Run ==
    /\ pc = "idle"
    /\ state = IDLE
    /\ state' = RUNNING
    /\ NextIteration(RUNNING, current_step)
    /\ UNCHANGED <<messages, tool_calls, current_base64_image, max_steps, tool_choices,
                   max_observe, act_i, results, step_result, think_result, raised,
                   calls_left, next_id, thinks, executed, invoked, acts, oracle_reply,
                   env, last_outcome>>

\* ------------------------------------------------ ReActAgent.step: think()
WithPrompt(msgs) ==
    IF next_step_prompt # <<>> THEN Append(msgs, UserMessage(next_step_prompt)) ELSE msgs

\* step() after think() returned should_act
StepAfterThink(should_act, st) ==
    /\ think_result' = should_act
    /\ IF should_act
       THEN /\ pc' = "act"
            /\ act_i' = 1
            /\ results' = <<>>
            /\ acts' = acts + 1
            /\ UNCHANGED <<current_step, step_result>>
       ELSE /\ step_result' = NO_ACTION_NEEDED
            /\ NextIteration(st, current_step)
            /\ UNCHANGED <<act_i, results, acts>>

\* a think() that catches every failure of the oracle request, records it in
\* the log and returns false
ThinkSwallows(reply) ==
    /\ reply.kind \in {"value_error", "error"}
    /\ messages' = Append(WithPrompt(messages),
                          AssistantMessage(<<"Error encountered while processing: ",
                                             reply.kind>>))
    /\ StepAfterThink(FALSE, state)
    /\ UNCHANGED <<state, tool_calls, raised, calls_left, next_id>>

\* the oracle request fails with a ValueError or with any other cause than the
\* token limit: think() re-raises, and the failure leaves step() and run()
ThinkRaises(reply) ==
    /\ reply.kind \in {"value_error", "error"}
    /\ messages' = WithPrompt(messages)
    /\ pc' = "raised"
    /\ raised' = reply.kind
    /\ UNCHANGED <<state, tool_calls, current_step, act_i, results, step_result,
                   think_result, calls_left, next_id, acts>>

\* a think() that leaves the state alone on the token limit
TokenLimitStateKept(st) == st

\* the state think() sets when the cause of the failure is TokenLimitExceeded
TokenLimitState(st) == FINISHED

\* the oracle request fails and the cause is TokenLimitExceeded
ThinkTokenLimit(reply) ==
    /\ reply.kind = "token_limit"
    /\ messages' = Append(WithPrompt(messages), AssistantMessage(TokenLimitMessage))
    /\ state' = TokenLimitState(state)
    /\ StepAfterThink(FALSE, state')
    /\ UNCHANGED <<tool_calls, raised, calls_left, next_id>>

\* the oracle returns no response: the RuntimeError is caught inside think()
ThinkNoResponse(reply) ==
    /\ reply.kind = "none"
    /\ tool_calls' = ThinkToolCalls(<<>>)
    /\ messages' = Append(WithPrompt(messages),
                          AssistantMessage(<<"Error encountered while processing: ",
                                             "No response received from the LLM">>))
    /\ StepAfterThink(FALSE, state)
    /\ UNCHANGED <<state, raised, calls_left, next_id>>

\* the oracle returns a response
ThinkResponse(reply) ==
    /\ reply.kind = "response"
    /\ LET calls == CallsOf(reply.names, next_id)
       IN /\ tool_calls' = ThinkToolCalls(calls)
          /\ messages' = ThinkAppend(tool_choices, reply.content, tool_calls',
                                     WithPrompt(messages))
          /\ StepAfterThink(ThinkReturn(tool_choices, reply.content, tool_calls'), state)
          /\ calls_left' = calls_left - Len(calls)
          /\ next_id' = next_id + Len(calls)
    /\ UNCHANGED <<state, raised>>

\* ToolCallAgent.think() of an agent whose oracle proposes calls by the names
ThinkWith(replies) ==
    /\ pc = "think"
    /\ thinks' = thinks + 1
    /\ \E reply \in replies :
          /\ oracle_reply' = reply
          /\ \/ ThinkRaises(reply)
             \/ ThinkTokenLimit(reply)
             \/ ThinkNoResponse(reply)
             \/ ThinkResponse(reply)
    /\ UNCHANGED <<current_base64_image, max_steps, tool_choices, max_observe,
                   executed, invoked, env, last_outcome>>

ThinkOver(names) == ThinkWith(OracleRepliesOver(names, calls_left))

Think == ThinkOver(OracleNames)

\* --------------------------------------------------- ToolCallAgent.act
\* an act() that answers with the placeholder whatever the log holds
LastContentIgnored(msgs) == NO_CONTENT

\* self.messages[-1].content or "No content or commands to execute"
LastContent(msgs) ==
    IF msgs[Len(msgs)].content # <<>> THEN msgs[Len(msgs)].content ELSE NO_CONTENT

\* act() with no pending tool calls
ActNoCalls ==
    /\ pc = "act"
    /\ tool_calls = <<>>
    /\ IF tool_choices = REQUIRED
       THEN /\ pc' = "raised"
            /\ raised' = TOOL_CALL_REQUIRED[1]
            /\ UNCHANGED <<current_step, step_result>>
       ELSE /\ step_result' = LastContent(messages)
            /\ NextIteration(state, current_step)
            /\ UNCHANGED raised
    /\ UNCHANGED <<state, messages, tool_calls, current_base64_image, max_steps,
                   tool_choices, max_observe, act_i, results, think_result,
                   calls_left, next_id, thinks, executed, invoked, acts, oracle_reply,
                   env, last_outcome>>

\* a loop that keeps the media captured so far
ResetImageKept(img) == img

\* self._current_base64_image = None at the top of each pass
ResetImage(img) == None

\* a for loop that walks the pending calls from the last to the first
CommandAtReversed(calls, i) == calls[Len(calls) + 1 - i]

\* for command in self.tool_calls: the command of the i-th pass
CommandAt(calls, i) == calls[i]

\* a loop that stops executing calls once the state is FINISHED and returns
\* what it has
ActCallUntilFinished ==
    /\ pc = "act"
    /\ act_i \in 1..Len(tool_calls)
    /\ IF state = FINISHED
       THEN /\ step_result' = Join(results)
            /\ act_i' = Len(tool_calls) + 1
            /\ NextIteration(state, current_step)
            /\ UNCHANGED <<state, last_outcome, current_base64_image, messages,
                           executed, invoked, results>>
       ELSE LET command == CommandAt(tool_calls, act_i)
            IN \E out \in Outcomes(command.name, env) :
               LET r == ExecuteTool(command, out, state, ResetImage(current_base64_image))
                   observed == IF max_observe # 0 THEN Truncate(r.observation, max_observe)
                             ELSE r.observation
               IN /\ state' = r.state
                  /\ last_outcome' = out
                  /\ current_base64_image' = r.image
                  /\ messages' = Append(messages, ToolMessage(observed, command.id,
                                                              command.name, r.image))
                  /\ executed' = Append(executed, command.id)
                  /\ invoked' = IF r.invoked THEN Append(invoked, command.id) ELSE invoked
                  /\ results' = Append(results, observed)
                  /\ act_i' = act_i + 1
                  /\ IF act_i = Len(tool_calls)
                     THEN /\ step_result' = Join(results')
                          /\ NextIteration(r.state, current_step)
                     ELSE UNCHANGED <<pc, current_step, step_result>>
    /\ UNCHANGED <<tool_calls, max_steps, tool_choices, max_observe, think_result,
                   raised, calls_left, next_id, thinks, acts, oracle_reply, env>>

\* one iteration of act()'s for loop, and the return after the last one
ActCall ==
    /\ pc = "act"
    /\ act_i \in 1..Len(tool_calls)
    /\ LET command == CommandAt(tool_calls, act_i)
       IN \E out \in Outcomes(command.name, env) :
          LET r == ExecuteTool(command, out, state, ResetImage(current_base64_image))
              observed == IF max_observe # 0 THEN Truncate(r.observation, max_observe)
                        ELSE r.observation
          IN /\ state' = r.state
             /\ last_outcome' = out
             /\ current_base64_image' = r.image
             /\ messages' = Append(messages,
                                   ToolMessage(observed, command.id, command.name, r.image))
             /\ executed' = Append(executed, command.id)
             /\ invoked' = IF r.invoked THEN Append(invoked, command.id) ELSE invoked
             /\ IF act_i = Len(tool_calls)
                THEN /\ step_result' = Join(Append(results, observed))
                     /\ results' = Append(results, observed)
                     /\ act_i' = act_i + 1
                     /\ NextIteration(r.state, current_step)
                ELSE /\ results' = Append(results, observed)
                     /\ act_i' = act_i + 1
                     /\ UNCHANGED <<pc, current_step, step_result>>
    /\ UNCHANGED <<tool_calls, max_steps, tool_choices, max_observe, think_result,
                   raised, calls_left, next_id, thinks, acts, oracle_reply, env>>

\* ---------------------------------------------------- app/flow/base.py
\* PlanStepStatus
NOT_STARTED == "not_started"
IN_PROGRESS == "in_progress"
COMPLETED == "completed"
BLOCKED == "blocked"

\* an active set that forgets in_progress
GetActiveStatusesNotStarted == {NOT_STARTED}

\* an active set that takes completed steps too
GetActiveStatusesWithCompleted == {NOT_STARTED, IN_PROGRESS, COMPLETED}

\* PlanStepStatus.get_active_statuses
GetActiveStatuses == {NOT_STARTED, IN_PROGRESS}

\* BaseFlow.primary_agent: agents.get(primary_agent_key)
PrimaryAgent == IF primary_agent_key \in agents THEN primary_agent_key ELSE None

\* ------------------------------------------------ app/flow/planning.py
ACTIVE_PLAN_ID == "plan_1"

\* the plan id the oracle writes in the arguments of its planning call
OraclePlanId == "plan_0"

PlanIds == {ACTIVE_PLAN_ID, OraclePlanId}

\* current_step_index is None
NoIndex == -1

NoInfo == [text |-> None, type |-> None]

\* a plan id the store holds no plan for
NoPlan == [exists |-> FALSE, steps |-> <<>>, step_statuses |-> <<>>]

\* the step texts of the plans
DefaultSteps == <<"Analyze request", "Execute task", "Verify results">>
OracleSteps == {"Execute task", "[CODE] Write the code", "[SEARCH] Look it up"}

\* re.search(r"\[([A-Z_]+)\]", step), lowered: the type tag of a step text
ExtractType(step) ==
    CASE step = "[CODE] Write the code" -> "code"
      [] step = "[SEARCH] Look it up" -> "search"
      [] OTHER -> None

\* PlanningFlow.get_executor: the key of the agent it returns
RECURSIVE FirstExecutor(_)
FirstExecutor(keys) ==
    IF keys = <<>> THEN PrimaryAgent
    ELSE IF Head(keys) \in agents THEN Head(keys)
    ELSE FirstExecutor(Tail(keys))

\* a choice of executor that ignores the step type
GetExecutorIgnoringType(step_type) == FirstExecutor(executor_keys)

GetExecutor(step_type) ==
    IF Truthy(step_type) /\ step_type \in agents THEN step_type
    ELSE FirstExecutor(executor_keys)

\* ---- the Plan Store (app/tool/planning.py)
\* create: a plan of the given steps, every status not_started
StoreCreate(steps) ==
    [exists |-> TRUE, steps |-> steps,
     step_statuses |-> [i \in 1..Len(steps) |-> NOT_STARTED]]

\* mark_step: the status of step i (counted from 0) is set
StoreMarkStep(plan, i, status) ==
    [plan EXCEPT !.step_statuses[i + 1] = status]

\* ---- _create_initial_plan
\* the calls of the oracle's plan-creation response: another tool, a planning
\* call whose arguments do not parse, a planning call that creates nothing,
\* and a planning call that creates a plan of some steps
PlanCalls ==
    {[name |-> "other", parses |-> TRUE, command |-> "none", plan_id |-> OraclePlanId,
      steps |-> <<>>],
     [name |-> "planning", parses |-> FALSE, command |-> "none", plan_id |-> OraclePlanId,
      steps |-> <<>>],
     [name |-> "planning", parses |-> TRUE, command |-> "get", plan_id |-> OraclePlanId,
      steps |-> <<>>]}
    \cup {[name |-> "planning", parses |-> TRUE, command |-> "create",
           plan_id |-> OraclePlanId, steps |-> ss] :
            ss \in SeqsUpTo(OracleSteps, MaxPlanSteps)}

PlanReplies ==
    {[kind |-> "raises", calls |-> <<>>]}
    \cup {[kind |-> "response", calls |-> cs] : cs \in SeqsUpTo(PlanCalls, 1)}
    \cup {[kind |-> "response", calls |-> <<c1, c2>>] :
            c1 \in {c \in PlanCalls : c.command # "create"}, c2 \in PlanCalls}

\* no call of the response names the planning tool
NoPlanningCall(calls) == \A i \in 1..Len(calls) : calls[i].name # "planning"

\* the first planning call whose arguments parse, or 0
RECURSIVE FirstPlanningCall(_, _)
FirstPlanningCall(calls, i) ==
    IF i > Len(calls) THEN 0
    ELSE IF calls[i].name = "planning" /\ calls[i].parses THEN i
    ELSE FirstPlanningCall(calls, i + 1)

\* planning_tool.execute(**args): create stores a plan under args.plan_id,
\* the other commands of the plan-creation response store nothing
StoreExecute(ps, args) ==
    IF args.command = "create"
    THEN [ps EXCEPT ![args.plan_id] = StoreCreate(args.steps)]
    ELSE ps

\* a plan creation without the default plan
CreateInitialPlanNoDefault(calls) ==
    LET k == FirstPlanningCall(calls, 1)
    IN IF k = 0 THEN plans
       ELSE StoreExecute(plans, [calls[k] EXCEPT !.plan_id = ACTIVE_PLAN_ID])

\* _create_initial_plan(request) on the oracle's response: the plans the
\* store then holds
CreateInitialPlan(calls) ==
    LET k == FirstPlanningCall(calls, 1)
    IN IF k = 0
       THEN StoreExecute(plans, [command |-> "create", plan_id |-> ACTIVE_PLAN_ID,
                                 steps |-> DefaultSteps])
       ELSE StoreExecute(plans, [calls[k] EXCEPT !.plan_id = ACTIVE_PLAN_ID])

\* a scan that returns the last active step instead of the first
RECURSIVE LastActive(_, _, _)
LastActive(steps, statuses, i) ==
    LET j == Len(steps) - 1 - i
    IN IF j < 0 THEN NoIndex
       ELSE IF (IF j >= Len(statuses) THEN NOT_STARTED ELSE statuses[j + 1])
                  \in {NOT_STARTED, IN_PROGRESS}
       THEN j
       ELSE LastActive(steps, statuses, i + 1)

\* a scan that takes only the steps not yet started
RECURSIVE FirstNotStarted(_, _, _)
FirstNotStarted(steps, statuses, i) ==
    IF i >= Len(steps) THEN NoIndex
    ELSE IF (IF i >= Len(statuses) THEN NOT_STARTED ELSE statuses[i + 1]) = NOT_STARTED
    THEN i
    ELSE FirstNotStarted(steps, statuses, i + 1)

\* ---- _get_current_step_info
\* the for loop over the steps: the first index (from 0) whose status is
\* active, a missing status counting as not_started
RECURSIVE FirstActive(_, _, _)
FirstActive(steps, statuses, i) ==
    IF i >= Len(steps) THEN NoIndex
    ELSE LET status == IF i >= Len(statuses) THEN NOT_STARTED ELSE statuses[i + 1]
         IN IF status \in GetActiveStatuses THEN i
            ELSE FirstActive(steps, statuses, i + 1)

\* the local fallback of the in_progress mark
RECURSIVE PadTo(_, _)
PadTo(statuses, n) ==
    IF Len(statuses) < n THEN PadTo(Append(statuses, NOT_STARTED), n) ELSE statuses

\* a fallback that rebuilds the list up to the step and drops the rest
MarkInProgressLocallyTruncating(plan, i) ==
    [plan EXCEPT !.step_statuses =
        Append(SubSeq(PadTo(plan.step_statuses, i), 1, i), IN_PROGRESS)]

\* a fallback that only logs the failure of the in_progress mark
MarkInProgressLocallySkipped(plan, i) == plan

MarkInProgressLocally(plan, i) ==
    IF i < Len(plan.step_statuses)
    THEN [plan EXCEPT !.step_statuses[i + 1] = IN_PROGRESS]
    ELSE [plan EXCEPT !.step_statuses = Append(PadTo(plan.step_statuses, i), IN_PROGRESS)]

\* a fallback that only logs the failure
MarkCompletedLocallyDropped(plan, i) == plan

\* ---- _mark_step_completed: the local fallback
MarkCompletedLocally(plan, i) ==
    [plan EXCEPT !.step_statuses = [PadTo(plan.step_statuses, i + 1) EXCEPT ![i + 1] = COMPLETED]]

\* ---- _generate_plan_text_from_storage pads the cached statuses in place
PadStatuses(plan) ==
    [plan EXCEPT !.step_statuses = PadTo(plan.step_statuses, Len(plan.steps))]

\* _get_plan_text: the store renders the plan, or it raises and the text is
\* generated from the cached plan
GetPlanText(plan, get_raises) ==
    IF get_raises /\ plan.exists THEN PadStatuses(plan) ELSE plan

\* an except branch that returns the bare message of the exception
ExecutionFailedBare(e) == <<e>>

\* execute(): the text its except branch returns
ExecutionFailed(e) == <<"Execution failed: ", e>>

\* ---- execute(): up to the while loop
StartExecute ==
    /\ fpc = "start"
    /\ \/ /\ PrimaryAgent = None
          /\ ret' = ExecutionFailed("no primary agent available")
          /\ fpc' = "done"
          /\ UNCHANGED <<plans, seen>>
       \/ /\ PrimaryAgent # None
          /\ input_text = ""
          /\ fpc' = "select"
          /\ UNCHANGED <<plans, ret, seen>>
       \/ /\ PrimaryAgent # None
          /\ input_text # ""
          /\ \E reply \in PlanReplies, store_raises \in BOOLEAN :
                IF reply.kind = "raises"
                THEN /\ ret' = ExecutionFailed("oracle failed")
                     /\ fpc' = "done"
                     /\ UNCHANGED <<plans, seen>>
                ELSE /\ seen' = seen \cup (IF NoPlanningCall(reply.calls)
                                           THEN {"no planning call"} ELSE {})
                     /\ IF store_raises
                        THEN /\ ret' = ExecutionFailed("plan store failed")
                             /\ fpc' = "done"
                             /\ UNCHANGED plans
                        ELSE /\ plans' = CreateInitialPlan(reply.calls)
                             /\ IF ~plans'[ACTIVE_PLAN_ID].exists
                                THEN /\ ret' = <<"plan creation failed for: ", input_text>>
                                     /\ fpc' = "done"
                                ELSE /\ fpc' = "select"
                                     /\ UNCHANGED ret
    /\ UNCHANGED <<agents, primary_agent_key, executor_keys, input_text,
                   current_step_index, step_info, executor, agent_state, result,
                   step_result_text, finalize_calls, last_write, last_run, running,
                   iterations>>

\* a selection that never finds a step
GetCurrentStepInfoNone(plan, mark_raises) ==
    [index |-> NoIndex, info |-> NoInfo, plan |-> plan]

\* _get_current_step_info as a function of the plan the store holds and of
\* whether the store's mark_step raises: the index and step_info it returns
\* and the plan it leaves
GetCurrentStepInfo(plan, mark_raises) ==
    LET i == IF plan.exists THEN FirstActive(plan.steps, plan.step_statuses, 0)
             ELSE NoIndex
    IN IF i = NoIndex
       THEN [index |-> NoIndex, info |-> NoInfo, plan |-> plan]
       ELSE [index |-> i,
             info |-> [text |-> plan.steps[i + 1], type |-> ExtractType(plan.steps[i + 1])],
             plan |-> IF mark_raises THEN MarkInProgressLocally(plan, i)
                      ELSE StoreMarkStep(plan, i, IN_PROGRESS)]

\* ---- the while loop: _get_current_step_info, get_executor, and
\* _execute_step up to the await of executor.run
SelectStep ==
    /\ fpc = "select"
    /\ iterations < MaxIterations
    /\ iterations' = iterations + 1
    /\ \E mark_raises \in BOOLEAN, get_raises \in BOOLEAN :
          LET got == GetCurrentStepInfo(plans[ACTIVE_PLAN_ID], mark_raises)
          IN /\ current_step_index' = got.index
             /\ step_info' = got.info
             /\ IF got.index = NoIndex
                THEN /\ fpc' = "finalize"
                     /\ UNCHANGED <<plans, executor, last_write, running, seen>>
                ELSE /\ plans' = [plans EXCEPT ![ACTIVE_PLAN_ID] =
                                     GetPlanText(got.plan, get_raises)]
                     /\ last_write' = IF mark_raises THEN "local" ELSE "store"
                     /\ seen' = seen \cup {last_write'}
                                     \cup (IF get_raises THEN {"get raised"} ELSE {})
                     /\ executor' = GetExecutor(got.info.type)
                     /\ running' = running \cup {got.index}
                     /\ fpc' = "running"
    /\ UNCHANGED <<agents, primary_agent_key, executor_keys, input_text, agent_state,
                   result, step_result_text, ret, finalize_calls, last_run>>

\* how executor.run(step_prompt) ends: it returns, leaving the executor's
\* state FINISHED or, with its step budget used up, RUNNING; or it raises out
\* of a step, which no step does once the state is FINISHED
RunOutcomes ==
    {[raises |-> FALSE, state |-> RUNNING],
     [raises |-> FALSE, state |-> FINISHED],
     [raises |-> TRUE, state |-> RUNNING]}

\* an except branch that marks the failed step blocked
StepFailedBlocked(plan, i) == StoreMarkStep(plan, i, BLOCKED)

\* an except branch that starts the plan over
StepFailedRestart(plan, i) ==
    [plan EXCEPT !.step_statuses = [j \in 1..Len(plan.step_statuses) |-> NOT_STARTED]]

\* _execute_step: the except branch logs and returns the error text; the plan
\* is left as it is
StepFailed(plan, i) == plan

\* a loop that never looks at the executor's state
WantsToTerminateNever(st) == FALSE

\* execute(): executor.state == AgentState.FINISHED, the test of the break
WantsToTerminate(st) == st = FINISHED

\* ---- _execute_step from the return of executor.run, and the rest of the
\* pass of the while loop
StepDone ==
    /\ fpc = "running"
    /\ \E out \in RunOutcomes, mark_raises \in BOOLEAN :
          LET plan == plans[ACTIVE_PLAN_ID]
              i == current_step_index
              text == IF out.raises
                      THEN <<"Error executing step ", ToString(i), ": ", "run failed">>
                      ELSE <<"step result">>
          IN /\ agent_state' = [agent_state EXCEPT ![executor] = out.state]
             /\ IF out.raises
                THEN /\ plans' = [plans EXCEPT ![ACTIVE_PLAN_ID] = StepFailed(plan, i)]
                     /\ seen' = seen \cup {"run raised"}
                     /\ UNCHANGED last_write
                ELSE /\ plans' = [plans EXCEPT ![ACTIVE_PLAN_ID] =
                                     IF mark_raises THEN MarkCompletedLocally(plan, i)
                                     ELSE StoreMarkStep(plan, i, COMPLETED)]
                     /\ last_write' = IF mark_raises THEN "local" ELSE "store"
                     /\ seen' = seen \cup {last_write'}
                                     \cup (IF out.state = FINISHED THEN {"run finished"}
                                           ELSE {"run returned"})
             /\ last_run' = IF out.raises THEN "raised" ELSE "returned"
             /\ step_result_text' = text
             /\ result' = result \o text \o <<"\n">>
             /\ running' = running \ {i}
             /\ IF WantsToTerminate(agent_state'[executor])
                THEN /\ fpc' = "done"
                     /\ ret' = result'
                ELSE /\ fpc' = "select"
                     /\ UNCHANGED ret
    /\ UNCHANGED <<agents, primary_agent_key, executor_keys, input_text,
                   current_step_index, step_info, executor, finalize_calls, iterations>>

\* a finalize that gives up as soon as the oracle's summary fails
FinalizeTextNoAgent(llm_fails, agent_fails) ==
    IF ~llm_fails THEN <<"Plan completed:\n\n", "oracle summary">>
    ELSE <<"Plan completed. Error generating summary.">>

\* ---- _finalize_plan: the oracle's summary, else the primary agent's, else
\* the generic notice
FinalizeText(llm_fails, agent_fails) ==
    IF ~llm_fails THEN <<"Plan completed:\n\n", "oracle summary">>
    ELSE IF ~agent_fails THEN <<"Plan completed:\n\n", "agent summary">>
    ELSE <<"Plan completed. Error generating summary.">>

FinalizePlan ==
    /\ fpc = "finalize"
    /\ finalize_calls' = finalize_calls + 1
    /\ \E get_raises \in BOOLEAN, llm_fails \in BOOLEAN, agent_fails \in BOOLEAN :
          /\ plans' = [plans EXCEPT ![ACTIVE_PLAN_ID] = GetPlanText(@, get_raises)]
          /\ seen' = seen \cup (IF get_raises THEN {"get raised"} ELSE {})
                          \cup (IF llm_fails THEN {"oracle summary failed"} ELSE {})
                          \cup (IF llm_fails /\ agent_fails
                                THEN {"agent summary failed"} ELSE {})
          /\ result' = result \o FinalizeText(llm_fails, agent_fails)
    /\ ret' = result'
    /\ fpc' = "done"
    /\ UNCHANGED <<agents, primary_agent_key, executor_keys, input_text,
                   current_step_index, step_info, executor, agent_state,
                   step_result_text, last_write, last_run, running,
                   iterations>>

\* the agents map, the primary agent key and the executor keys a flow is
\* constructed with (BaseFlow.__init__, PlanningFlow.__init__)
FlowConfigs ==
    {[agents |-> {"default"}, primary |-> "default", executors |-> <<"default">>],
     [agents |-> {"manus", "code"}, primary |-> "manus", executors |-> <<"manus", "code">>],
     [agents |-> {"manus", "code"}, primary |-> "code", executors |-> <<"ghost", "manus">>],
     [agents |-> {"manus", "code"}, primary |-> "manus", executors |-> <<"ghost">>],
     [agents |-> {"manus"}, primary |-> "ghost", executors |-> <<"manus">>],
     [agents |-> {}, primary |-> None, executors |-> <<>>]}

FlowInit ==
    /\ fpc = "start"
    /\ \E c \in FlowConfigs :
          /\ agents = c.agents
          /\ primary_agent_key = c.primary
          /\ executor_keys = c.executors
    /\ input_text \in {"", "request"}
    /\ plans = [id \in PlanIds |-> NoPlan]
    /\ current_step_index = NoIndex
    /\ step_info = NoInfo
    /\ executor = None
    /\ agent_state = [a \in agents |-> IDLE]
    /\ result = <<>>
    /\ step_result_text = <<>>
    /\ ret = <<>>
    /\ finalize_calls = 0
    /\ last_write = None
    /\ last_run = None
    /\ running = {}
    /\ seen = {}
    /\ iterations = 0

\* no flow: the agent runs on its own
FlowOff ==
    /\ fpc = "off"
    /\ agents = {}
    /\ primary_agent_key = None
    /\ executor_keys = <<>>
    /\ input_text = ""
    /\ plans = [id \in PlanIds |-> NoPlan]
    /\ current_step_index = NoIndex
    /\ step_info = NoInfo
    /\ executor = None
    /\ agent_state = [a \in {} |-> IDLE]
    /\ result = <<>>
    /\ step_result_text = <<>>
    /\ ret = <<>>
    /\ finalize_calls = 0
    /\ last_write = None
    /\ last_run = None
    /\ running = {}
    /\ seen = {}
    /\ iterations = 0

\* ----------------------------------------------- app/agent/planning.py
\* PlanStepStatus.get_status_marks, read with the not_started mark as the
\* default (the source's arrow and check mark are written > and v)
StatusMark(status) ==
    CASE status = COMPLETED -> "[v]"
      [] status = IN_PROGRESS -> "[>]"
      [] status = BLOCKED -> "[!]"
      [] OTHER -> "[ ]"

AllStatuses == {NOT_STARTED, IN_PROGRESS, COMPLETED, BLOCKED}

\* step texts and notes a plan may carry: a plain text, a text that itself
\* holds the not_started mark, no notes, some notes
PlainStep == <<"Do the work">>
StepTexts == {PlainStep, <<"Tick the ", "[ ]", " box">>}
StepNotes == {"", "half done"}

\* the planning tool holds no plan under active_plan_id
PlanningNoPlan ==
    [exists |-> FALSE, steps |-> <<>>, step_statuses |-> <<>>, step_notes |-> <<>>]

\* planning create: every step not_started, without notes
PlanningCreate(steps) ==
    [exists |-> TRUE, steps |-> steps,
     step_statuses |-> [i \in 1..Len(steps) |-> NOT_STARTED],
     step_notes |-> [i \in 1..Len(steps) |-> ""]]

\* planning mark_step: step i (counted from 0) gets the status; a missing plan
\* or an index outside the step list is answered with an error and changes
\* nothing
PlanningMarkStep(plan, i, status) ==
    IF plan.exists /\ i \in 0..(Len(plan.steps) - 1)
    THEN [plan EXCEPT !.step_statuses[i + 1] = status]
    ELSE plan

\* the plans the planning tool may hold: any statuses, texts and notes
PlanningPlans ==
    {PlanningNoPlan}
    \cup UNION {{[exists |-> TRUE, steps |-> st, step_statuses |-> ss, step_notes |-> ns] :
                   st \in [1..n -> StepTexts], ss \in [1..n -> AllStatuses],
                   ns \in [1..n -> StepNotes]} : n \in 0..MaxIndexedSteps}

\* the rendered plan, one element per line: f"{i}. {status_mark} {step}\n" and
\* f"   Notes: {notes}\n" under the header that ends with "Steps:\n"
StepLine(i, status, step) == <<ToString(i), ". ", StatusMark(status), " ">> \o step

NotesLine(notes) == <<"   Notes: ", notes>>

RECURSIVE StepLines(_, _)
StepLines(plan, i) ==
    IF i >= Len(plan.steps) THEN <<>>
    ELSE <<StepLine(i, plan.step_statuses[i + 1], plan.steps[i + 1])>>
         \o (IF plan.step_notes[i + 1] # "" THEN <<NotesLine(plan.step_notes[i + 1])>>
             ELSE <<>>)
         \o StepLines(plan, i + 1)

CountStatus(plan, status) ==
    Cardinality({i \in 1..Len(plan.step_statuses) : plan.step_statuses[i] = status})

PlanLines(plan) ==
    << <<"Plan: ", "title", " (ID: ", ACTIVE_PLAN_ID, ")">>,
       <<"=====">>,
       <<>>,
       <<"Progress: ", ToString(CountStatus(plan, COMPLETED)), "/",
         ToString(Len(plan.steps)), " steps completed">>,
       <<"Status: ", ToString(CountStatus(plan, COMPLETED)), " completed, ",
         ToString(CountStatus(plan, IN_PROGRESS)), " in progress, ",
         ToString(CountStatus(plan, BLOCKED)), " blocked, ",
         ToString(CountStatus(plan, NOT_STARTED)), " not started">>,
       <<>>,
       <<"Steps:">> >>
    \o StepLines(plan, 0)

\* PlanningAgent.get_plan: result.output of the planning tool's get, which
\* is None when the tool answers with an error
GetPlan(plan) ==
    IF plan.exists THEN [none |-> FALSE, lines |-> PlanLines(plan)]
    ELSE [none |-> TRUE, lines |-> <<>>]

\* enumerate(lines): the offset (from 0) of the first line that P holds of
FirstOffset(lines, P(_)) ==
    LET hits == {k \in 1..Len(lines) : P(lines[k])}
    IN IF hits = {} THEN NoIndex
       ELSE (CHOOSE k \in hits : \A j \in hits : k <= j) - 1

\* line.strip() == "Steps:"
IsStepsLine(line) == line = <<"Steps:">>

\* "[ ]" in line or "[>]" in line
HasActiveMark(line) == \E k \in 1..Len(line) : line[k] \in {"[ ]", "[>]"}

\* PlanningAgent._get_current_step_index: the index it returns and the plan the
\* tool then holds
GetCurrentStepIndex(plan) ==
    LET text == GetPlan(plan)
        steps_index == FirstOffset(text.lines, IsStepsLine)
        rest == SubSeq(text.lines, steps_index + 2, Len(text.lines))
        i == FirstOffset(rest, HasActiveMark)
    IN IF text.none \/ steps_index = -1 \/ i = NoIndex
       THEN [index |-> NoIndex, plan |-> plan]
       ELSE [index |-> i, plan |-> PlanningMarkStep(plan, i, IN_PROGRESS)]

\* the record think() files for a call; its result is set by act()
PendingRecord(index, name) ==
    [step_index |-> index, tool_name |-> name, status |-> "pending", result |-> <<>>]

\* a tracker that keeps what it holds while any record is still pending
TrackerPutUnlessPending(tracker, id, record) ==
    IF \E x \in DOMAIN tracker : tracker[x].status = "pending" THEN tracker
    ELSE [x \in DOMAIN tracker \cup {id} |-> IF x = id THEN record ELSE tracker[x]]

\* self.step_execution_tracker[id] = record
TrackerPut(tracker, id, record) ==
    [x \in DOMAIN tracker \cup {id} |-> IF x = id THEN record ELSE tracker[x]]

\* think() after super().think() returned result: the tracker it leaves
TrackAfterThink(tracker, should_act, calls, index) ==
    IF /\ should_act
       /\ calls # <<>>
       /\ calls[1].name # "planning"
       /\ calls[1].name \notin SpecialToolNames
       /\ index # NoIndex
    THEN TrackerPut(tracker, calls[1].id, PendingRecord(index, calls[1].name))
    ELSE tracker

\* act() after super().act() returned result: the tracker it leaves
ResolveAfterAct(tracker, calls, act_result) ==
    IF calls # <<>> /\ calls[1].id \in DOMAIN tracker
    THEN [tracker EXCEPT ![calls[1].id].status = "completed",
                         ![calls[1].id].result = act_result]
    ELSE tracker

\* PlanningAgent.update_plan_status(tool_call_id): the plan it leaves
UpdatePlanStatus(plan, tracker, id) ==
    IF id \notin DOMAIN tracker THEN plan
    ELSE IF tracker[id].status # "completed" THEN plan
    ELSE PlanningMarkStep(plan, tracker[id].step_index, COMPLETED)

\* act() after super().act(): the plan it leaves
PlanAfterAct(plan, tracker, calls, act_result) ==
    IF /\ calls # <<>>
       /\ calls[1].id \in DOMAIN tracker
       /\ calls[1].name # "planning"
       /\ calls[1].name \notin SpecialToolNames
    THEN UpdatePlanStatus(plan, ResolveAfterAct(tracker, calls, act_result), calls[1].id)
    ELSE plan

\* "\n".join of the rendered lines
RECURSIVE JoinLines(_)
JoinLines(lines) ==
    IF lines = <<>> THEN <<>> ELSE Head(lines) \o <<"\n">> \o JoinLines(Tail(lines))

\* think(): the prompt built from get_plan() and next_step_prompt
PlanningPrompt(plan) ==
    <<"CURRENT PLAN STATUS:\n">>
    \o (IF GetPlan(plan).none THEN <<"None">> ELSE JoinLines(GetPlan(plan).lines))
    \o <<"\n\n">> \o NEXT_STEP_PROMPT

\* what the oracle answers create_initial_plan: a failure, a response without
\* a planning call, or a planning call that creates a plan of n steps
CreateReplies ==
    {[kind |-> "raises", steps |-> 0], [kind |-> "no planning call", steps |-> 0]}
    \cup {[kind |-> "create", steps |-> n] : n \in 1..MaxPlanSteps}

\* run(request): create_initial_plan when a request is given
PlanCreateInitialPlan ==
    /\ ppc = "request"
    /\ pc = "idle"
    /\ \/ /\ ppc' = "begin"
          /\ UNCHANGED <<messages, next_id, pc, raised, active_plan>>
       \/ \E reply \in CreateReplies :
            LET ask == UserMessage(<<"Analyze the request and create a plan with ID ",
                                     ACTIVE_PLAN_ID, ": ", "request">>)
                call == [id |-> next_id, name |-> "planning"]
            IN CASE reply.kind = "raises" ->
                      /\ messages' = Append(messages, ask)
                      /\ pc' = "raised"
                      /\ raised' = "error"
                      /\ ppc' = "begin"
                      /\ UNCHANGED <<next_id, active_plan>>
                 [] reply.kind = "no planning call" ->
                      /\ messages' = messages \o
                            <<ask, FromToolCalls(<<>>, <<>>),
                              AssistantMessage(<<"Error: Parameter 'plan_id' is required for command: create">>)>>
                      /\ ppc' = "begin"
                      /\ UNCHANGED <<next_id, pc, raised, active_plan>>
                 [] OTHER ->
                      /\ messages' = messages \o
                            <<ask, FromToolCalls(<<>>, <<call>>),
                              ToolMessage(<<"Observed output of cmd '", "planning",
                                            "' executed:\n", "Plan created">>,
                                          call.id, call.name, None)>>
                      /\ next_id' = next_id + 1
                      /\ active_plan' = PlanningCreate([i \in 1..reply.steps |-> PlainStep])
                      /\ ppc' = "begin"
                      /\ UNCHANGED <<pc, raised>>
    /\ UNCHANGED <<state, tool_calls, current_base64_image, current_step, max_steps,
                   tool_choices, max_observe, act_i, results, step_result, think_result,
                   calls_left, thinks, executed, invoked, acts, oracle_reply, env,
                   last_outcome, planning_step_index, step_execution_tracker>>

\* run(request): super().run()
PlanRun ==
    /\ ppc = "begin"
    /\ Run
    /\ UNCHANGED planVars

\* think() up to super().think(): the prompt, then _get_current_step_index
PlanThinkBegin ==
    /\ ppc = "begin"
    /\ pc = "think"
    /\ messages' = Append(messages, UserMessage(PlanningPrompt(active_plan)))
    /\ planning_step_index' = GetCurrentStepIndex(active_plan).index
    /\ active_plan' = GetCurrentStepIndex(active_plan).plan
    /\ ppc' = "super"
    /\ UNCHANGED <<state, tool_calls, current_base64_image, current_step, max_steps,
                   tool_choices, max_observe, pc, act_i, results, step_result,
                   think_result, raised, calls_left, next_id, thinks, executed, invoked,
                   acts, oracle_reply, env, last_outcome, step_execution_tracker>>

\* think() from super().think() on: the call is filed in the tracker
PlanThinkSuper ==
    /\ ppc = "super"
    /\ Think
    /\ step_execution_tracker' =
          IF pc' = "raised" THEN step_execution_tracker
          ELSE TrackAfterThink(step_execution_tracker, think_result', tool_calls',
                               planning_step_index)
    /\ ppc' = "begin"
    /\ UNCHANGED <<active_plan, planning_step_index>>

\* act() when super().act() has no calls to execute
PlanActNoCalls ==
    /\ ActNoCalls
    /\ UNCHANGED planVars

\* act(): one pass of super().act()'s loop; after the last one the record of
\* the first call is resolved and the plan updated
PlanActCall ==
    /\ ActCall
    /\ IF act_i = Len(tool_calls)
       THEN /\ step_execution_tracker' =
                  ResolveAfterAct(step_execution_tracker, tool_calls, step_result')
            /\ active_plan' = PlanAfterAct(active_plan, step_execution_tracker,
                                           tool_calls, step_result')
       ELSE UNCHANGED <<step_execution_tracker, active_plan>>
    /\ UNCHANGED <<ppc, planning_step_index>>

\* a record left pending by an earlier cycle that was cut off between its
\* think() and its act(); its id is none the oracle gives again
StaleTracker == [x \in {0} |-> PendingRecord(0, "create_chat_completion")]

PlanInit ==
    /\ ppc = "request"
    /\ active_plan = PlanningNoPlan
    /\ planning_step_index = NoIndex
    /\ step_execution_tracker \in {<<>>, StaleTracker}

PlanOff ==
    /\ ppc = "off"
    /\ active_plan = PlanningNoPlan
    /\ planning_step_index = NoIndex
    /\ step_execution_tracker = <<>>

\* _get_current_step_index applied to a plan of the tool
FindCurrentStep ==
    /\ ppc = "index"
    /\ planning_step_index' = GetCurrentStepIndex(active_plan).index
    /\ active_plan' = GetCurrentStepIndex(active_plan).plan
    /\ ppc' = "indexed"
    /\ UNCHANGED step_execution_tracker

\* ---------------------------------------------------- app/tool/bash.py
\* Bash._session is None
NoSession == [exists |-> FALSE, started |-> FALSE, timed_out |-> FALSE, exited |-> FALSE]

\* _BashSession(), then start(): the subprocess is created or the creation
\* fails and leaves the session unstarted
NewSession(start_ok) ==
    [exists |-> TRUE, started |-> start_ok, timed_out |-> FALSE, exited |-> FALSE]

\* how an invocation ended: with a result or with a raised error, whether it
\* ran past its execution timeout, and whether its session was started
Ended(tool, kind, cause, timeout, established) ==
    [tool |-> tool, kind |-> kind, cause |-> cause, timeout |-> timeout,
     established |-> established]

\* _BashSession.run(command): the session it leaves and how it ends
SessionRun(session, in_time) ==
    IF ~session.started
    THEN [session |-> session,
          ended |-> Ended("bash", "raised", "Session has not started.", FALSE, FALSE)]
    ELSE IF session.exited
    THEN [session |-> session,
          ended |-> Ended("bash", "result", "tool must be restarted", FALSE, TRUE)]
    ELSE IF session.timed_out
    THEN [session |-> session,
          ended |-> Ended("bash", "raised", "timed out, must be restarted", FALSE, TRUE)]
    ELSE IF ~in_time
    THEN [session |-> [session EXCEPT !.timed_out = TRUE],
          ended |-> Ended("bash", "raised", "timed out, must be restarted", TRUE, TRUE)]
    ELSE [session |-> session,
          ended |-> Ended("bash", "result", "output", FALSE, TRUE)]

\* Bash.execute(command, restart): the session it leaves and how it ends
BashExecuteOutcome(session, command, restart, start_ok, in_time) ==
    IF restart
    THEN IF session.exists /\ ~session.started
         THEN [session |-> session,
               ended |-> Ended("bash", "raised", "session not started (stop)", FALSE, FALSE)]
         ELSE IF ~start_ok
         THEN [session |-> NewSession(FALSE),
               ended |-> Ended("bash", "raised", "start failed", FALSE, FALSE)]
         ELSE [session |-> NewSession(TRUE),
               ended |-> Ended("bash", "result", "tool restarted", FALSE, TRUE)]
    ELSE IF ~session.exists /\ ~start_ok
    THEN [session |-> NewSession(FALSE),
          ended |-> Ended("bash", "raised", "start failed", FALSE, FALSE)]
    ELSE LET s == IF session.exists THEN session ELSE NewSession(TRUE)
         IN IF command # None THEN SessionRun(s, in_time)
            ELSE [session |-> s,
                  ended |-> Ended("bash", "raised", "no command provided", FALSE, s.started)]

BashExecute ==
    /\ Len(tool_log) < MaxToolCalls
    /\ \E command \in {None, "ls"}, restart \in BOOLEAN, start_ok \in BOOLEAN,
          in_time \in BOOLEAN :
          LET o == BashExecuteOutcome(bash_session, command, restart, start_ok, in_time)
          IN /\ bash_session' = o.session
             /\ tool_log' = Append(tool_log, o.ended)

\* the bash process ends by itself: returncode is set
BashProcessExits ==
    /\ bash_session.started
    /\ ~bash_session.exited
    /\ bash_session' = [bash_session EXCEPT !.exited = TRUE]
    /\ UNCHANGED tool_log

\* ------------------------------------------ app/tool/python_execute.py
\* PythonExecute.execute(code, timeout): the child finishes (the code ran, or
\* raised and the error text was recorded) or is still alive after the timeout
PythonExecuteOutcome(behaviour) ==
    CASE behaviour = "prints" -> Ended("python_execute", "result", "success", FALSE, TRUE)
      [] behaviour = "raises" -> Ended("python_execute", "result", "failure", FALSE, TRUE)
      [] OTHER -> Ended("python_execute", "result", "execution timeout", TRUE, TRUE)

PythonExecute ==
    /\ Len(tool_log) < MaxToolCalls
    /\ \E behaviour \in {"prints", "raises", "hangs"} :
          tool_log' = Append(tool_log, PythonExecuteOutcome(behaviour))
    /\ UNCHANGED bash_session

ToolsInit ==
    /\ bash_session = NoSession
    /\ tool_log = <<>>

\* ------------------------------------------ app/agent/pipeline_agent.py
\* the tool map of PipelineAgent.available_tools, and the names a call may carry
PipelineTools == {"wireframe_generator", "wireframe_html", "html_to_api_doc",
                  "html_to_vue", "html_to_springboot", "terminate"}
PipelineNames == PipelineTools \cup {"frobnicate"}

PipelineSteps == {"wireframe_generation", "html_creation", "api_doc_generation",
                  "frontend_generation", "backend_generation"}

\* execute_tool's if/elif chain over tool_name: the step it reports on
StepOfTool(name) ==
    CASE name = "wireframe_generator" -> "wireframe_generation"
      [] name = "wireframe_html" -> "html_creation"
      [] name = "html_to_api_doc" -> "api_doc_generation"
      [] name = "html_to_vue" -> "frontend_generation"
      [] name = "html_to_springboot" -> "backend_generation"
      [] OTHER -> None

\* update_pipeline_status's if/elif chain over step: the output_files key
OutputKey(step) ==
    CASE step = "wireframe_generation" -> "wireframe_desc"
      [] step = "html_creation" -> "html_path"
      [] step = "api_doc_generation" -> "api_doc_path"
      [] step = "frontend_generation" -> "frontend_path"
      [] OTHER -> "backend_path"

\* d[k] = v and d.get(k) on a dict kept as a function; texts are sequences of
\* fragments, and the empty sequence stands for "" and for None
DictSet(d, k, v) == [x \in DOMAIN d \cup {k} |-> IF x = k THEN v ELSE d[x]]

DictGet(d, k) == IF k \in DOMAIN d THEN d[k] ELSE <<>>

\* the text a tool prints when it saved its product (the source's marker and
\* the path after it), and the path taken from it
SAVED_TO == "saved to: path"
SavedPath == <<"path">>

\* an overall status that never reports a failed stage
OverallStatusIgnoringFailed(ps) ==
    IF \A k \in DOMAIN ps \ {"status"} : ps[k] = "completed" THEN "completed"
    ELSE "in_progress"

\* the overall status update_pipeline_status computes
OverallStatus(ps) ==
    LET steps == DOMAIN ps \ {"status"}
    IN IF \A k \in steps : ps[k] = "completed" THEN "completed"
       ELSE IF \E k \in steps : ps[k] = "failed" THEN "failed"
       ELSE "in_progress"

\* PipelineAgent.update_pipeline_status(step, status, output): the two dicts
\* it leaves (output <<>> is None)
UpdatePipelineStatus(ps, files, step, status, output) ==
    LET known == step \in DOMAIN ps
        ps1 == IF known THEN DictSet(ps, step, status) ELSE ps
        files1 == IF known /\ output # <<>> /\ step \in PipelineSteps
                  THEN IF step = "wireframe_generation"
                       THEN DictSet(files, "wireframe_desc", output)
                       ELSE IF Mentions(output, SAVED_TO)
                       THEN DictSet(files, OutputKey(step), SavedPath)
                       ELSE files
                  ELSE files
    IN [status |-> DictSet(ps1, "status", OverallStatus(ps1)), files |-> files1]

\* the arguments of a call: a JSON text or an already parsed mapping, and the
\* keys that occur in it
ArgKeys == {"description_text", "package_name"}
PipelineArguments == [type : {"str", "dict"}, keys : SUBSET ArgKeys]

PipelineCommands ==
    {[id |-> 1, name |-> n, arguments |-> a] : n \in PipelineNames, a \in PipelineArguments}

PipelineResults == {ToolResult("out", None, None, None),
                    ToolResult(SAVED_TO, None, None, None),
                    ToolResult(None, "boom", None, None)}

PipelineOutcomes(name) ==
    IF name \notin PipelineTools THEN {NoOutcome}
    ELSE {[parses |-> FALSE, raises |-> FALSE, result |-> NoOutcome.result],
          [parses |-> TRUE, raises |-> TRUE, result |-> NoOutcome.result]}
         \cup {[parses |-> TRUE, raises |-> FALSE, result |-> r] :
                 r \in IF IsSpecialTool(name) THEN {ToolResult("out", None, None, None)}
                       ELSE PipelineResults}

\* super().execute_tool(command): json.loads(arguments or "{}") takes a text; a
\* non-empty mapping makes it raise TypeError inside the try block, an empty
\* one is replaced by "{}"
SuperExecuteTool(command, out, st) ==
    IF command.name \in PipelineTools /\ command.arguments.type = "dict"
    THEN IF command.arguments.keys # {}
         THEN [observation |-> ToolProblem(command.name,
                                  "the JSON object must be str, bytes or bytearray, not dict"),
               state |-> st, image |-> None, invoked |-> FALSE]
         ELSE ExecuteToolIn(PipelineTools, command, [out EXCEPT !.parses = TRUE], st, None)
    ELSE ExecuteToolIn(PipelineTools, command, out, st, None)

\* the key execute_tool wants to add to the arguments of the call, or None
WantedKey(command) ==
    IF command.name = "html_to_api_doc" /\ "description_text" \notin command.arguments.keys
    THEN "description_text"
    ELSE IF command.name = "html_to_springboot" /\ "package_name" \notin command.arguments.keys
    THEN "package_name"
    ELSE None

\* success: "Error:" not in result (the other two words are in no modelled text)
Succeeded(observation) == ~HasErrorText(observation)

\* PipelineAgent.execute_tool(command): how it ends and what it leaves.
\* command.function.arguments[key] = value is an item assignment: on a text it
\* raises TypeError, outside any try block
PipelineExecuteTool(command, out, st, ps, files) ==
    LET wanted == WantedKey(command)
        adds == wanted # None /\ DictGet(files, wanted) # <<>>
    IN IF adds /\ command.arguments.type = "str"
       THEN [kind |-> "raised", observation |-> <<"TypeError">>, state |-> st,
             invoked |-> FALSE, command |-> command, added |-> wanted,
             status |-> ps, files |-> files]
       ELSE LET sent == IF adds
                        THEN [command EXCEPT !.arguments.keys = @ \cup {wanted}]
                        ELSE command
                step == StepOfTool(command.name)
                before == IF step # None
                          THEN UpdatePipelineStatus(ps, files, step, "in_progress", <<>>)
                          ELSE [status |-> ps, files |-> files]
                r == SuperExecuteTool(sent, out, st)
                after == IF step # None
                         THEN UpdatePipelineStatus(before.status, before.files, step,
                                                   IF Succeeded(r.observation)
                                                   THEN "completed" ELSE "failed",
                                                   r.observation)
                         ELSE before
            IN [kind |-> "returned", observation |-> r.observation, state |-> r.state,
                invoked |-> r.invoked, command |-> sent,
                added |-> IF adds THEN wanted ELSE None,
                status |-> after.status, files |-> after.files]

\* initialize(): the two dicts it builds and the two messages it adds
InitialStatus ==
    [k \in PipelineSteps \cup {"status"} |->
        IF k = "status" THEN "initialized" ELSE "pending"]

InitialFiles(description_text, package_name) ==
    [k \in {"image_path", "wireframe_desc", "html_path", "api_doc_path",
            "frontend_path", "backend_path", "project_name",
            "description_text", "package_name"} |->
        CASE k = "image_path" -> <<"ui.png">>
          [] k = "project_name" -> <<"auto_generated_project">>
          [] k = "description_text" -> description_text
          [] k = "package_name" ->
                IF package_name # <<>> THEN package_name ELSE <<"com.demo">>
          [] OTHER -> <<>>]

InitialMessages(description_text, package_name) ==
    << [UserMessage(<<"system prompt">>) EXCEPT !.role = "system"],
       UserMessage(<<"run the whole flow on ", "ui.png", " for project ",
                     "auto_generated_project">>
                   \o (IF description_text # <<>>
                       THEN <<"\n\ndescription:\n">> \o description_text
                       ELSE <<>>)
                   \o (IF package_name # <<>> /\ package_name # <<"com.demo">>
                       THEN <<"\n\npackage: ">> \o package_name
                       ELSE <<>>)) >>

\* PipelineAgent.initialize(input_image_path, project_name, description_text,
\* package_name)
PipelineInitialize ==
    /\ pipeline_calls = 0
    /\ "status" \notin DOMAIN pipeline_status
    /\ \E description_text \in {<<>>, <<"a shop">>}, package_name \in {<<>>, <<"com.acme">>} :
          /\ pipeline_status' = InitialStatus
          /\ output_files' = InitialFiles(description_text, package_name)
          /\ messages' = messages \o InitialMessages(description_text, package_name)
    /\ UNCHANGED <<state, tool_calls, current_base64_image, current_step, max_steps,
                   tool_choices, max_observe, pc, act_i, results, step_result,
                   think_result, raised, calls_left, next_id, thinks, executed, invoked,
                   acts, oracle_reply, env, last_outcome, pipeline_calls, pipeline_last>>

\* one call of PipelineAgent.execute_tool, the command drawn from commands
PipelineExecuteToolOver(commands, limit) ==
    /\ pipeline_calls < limit
    /\ \E command \in commands :
          \E out \in PipelineOutcomes(command.name) :
             \E r \in {PipelineExecuteTool(command, out, state, pipeline_status,
                                             output_files)} :
                /\ state' = r.state
                /\ pipeline_status' = r.status
                /\ output_files' = r.files
                /\ pipeline_last' = [given |-> command, out |-> out, kind |-> r.kind,
                                     observation |-> r.observation, invoked |-> r.invoked,
                                     command |-> r.command, added |-> r.added]
    /\ pipeline_calls' = pipeline_calls + 1
    /\ UNCHANGED <<messages, tool_calls, current_base64_image, current_step, max_steps,
                   tool_choices, max_observe, pc, act_i, results, step_result,
                   think_result, raised, calls_left, next_id, thinks, executed, invoked,
                   acts, oracle_reply, env, last_outcome>>

PipelineExecuteToolCall == PipelineExecuteToolOver(PipelineCommands, MaxPipelineCalls)

\* a PipelineAgent after construction: both dicts empty
NoPipelineCall ==
    [given |-> [id |-> 0, name |-> "", arguments |-> [type |-> "str", keys |-> {}]],
     out |-> NoOutcome, kind |-> "none", observation |-> <<>>,
     invoked |-> FALSE,
     command |-> [id |-> 0, name |-> "", arguments |-> [type |-> "str", keys |-> {}]],
     added |-> None]

PipelineInit ==
    /\ pipeline_status = <<>>
    /\ output_files = <<>>
    /\ pipeline_calls = 0
    /\ pipeline_last = NoPipelineCall

\* no tool of this section is invoked and no PipelineAgent exists
ToolsOff == ToolsInit /\ PipelineInit

\* the agent is no BrowserAgent, MCPAgent or SWEAgent: the prompt is the one
\* the class declares and no subclass hook runs
SubOff ==
    /\ spc = "begin"
    /\ next_step_prompt = NEXT_STEP_PROMPT
    /\ browser_events = <<>>
    /\ mcp_session = FALSE
    /\ mcp_tool_map = {}
    /\ tool_schemas = {}
    /\ mcp_events = <<>>
    /\ working_dir = "."
    /\ shell_dir = "/a"
    /\ shared_bash = FALSE

\* ------------------------------------------------ app/agent/browser.py
\* BrowserAgent.max_observe
BROWSER_MAX_OBSERVE == 10000

\* the tool map of BrowserAgent.available_tools, and the names its oracle
\* may put in a proposed call
BrowserTools == {"browser_use", "terminate"}
BrowserNames == {"browser_use", "terminate"}

\* a handler that delegates to the base handler first and releases the
\* browser afterwards
BrowserHandleSpecialToolLate(name, st, events) ==
    IF ~IsSpecialTool(name) THEN [state |-> st, events |-> events]
    ELSE [state |-> HandleSpecialTool(name, st),
          events |-> events \o <<HandleSpecialTool(name, st), "cleanup">>]

\* BrowserAgent._handle_special_tool: the browser tool's cleanup() is awaited,
\* then the base handler sets the state; events records both in their order
BrowserHandleSpecialTool(name, st, events) ==
    IF ~IsSpecialTool(name) THEN [state |-> st, events |-> events]
    ELSE [state |-> HandleSpecialTool(name, st),
          events |-> events \o <<"cleanup", HandleSpecialTool(name, st)>>]

\* what the browser tool answers to one call
BrowserResults == {ToolResult("out", None, "shot", None),
                   ToolResult(None, "boom", None, None)}

BrowserOutcomes(name) ==
    IF name \notin BrowserTools THEN {NoOutcome}
    ELSE {[parses |-> TRUE, raises |-> TRUE, result |-> NoOutcome.result]}
         \cup {[parses |-> TRUE, raises |-> FALSE, result |-> r] :
                 r \in IF IsSpecialTool(name) THEN {ToolResult("out", None, None, None)}
                       ELSE BrowserResults}

\* execute_tool of a BrowserAgent: the inherited body, with the overriding
\* handler called where the tool has returned
BrowserExecuteTool(command, out, st, img, events) ==
    LET r == ExecuteToolIn(BrowserTools, command, out, st, img)
        handled == r.invoked /\ ~out.raises
        h == BrowserHandleSpecialTool(command.name, st, events)
    IN [observation |-> r.observation,
        state |-> IF handled THEN h.state ELSE r.state,
        image |-> r.image,
        invoked |-> r.invoked,
        events |-> IF handled THEN h.events ELSE events]

\* what get_current_state() of the browser tool gives: it fails (raises or
\* carries an error), or it returns a payload, with or without a screenshot,
\* that is or is not valid JSON
BrowserStates ==
    {[failed |-> TRUE, image |-> None, parses |-> FALSE]}
    \cup {[failed |-> FALSE, image |-> i, parses |-> p] :
            i \in {None, "shot"}, p \in BOOLEAN}

\* get_browser_state: the screenshot it leaves in _current_base64_image
BrowserStateImage(bs, img) ==
    IF ~bs.failed /\ Truthy(bs.image) THEN bs.image ELSE img

\* get_browser_state returned a state (not None)
BrowserStateKnown(bs) == ~bs.failed /\ bs.parses

\* NEXT_STEP_PROMPT.format(...): the placeholders are filled with the page
\* details when the state is known and with empty strings otherwise
BrowserPrompt(bs) ==
    IF BrowserStateKnown(bs) THEN NEXT_STEP_PROMPT \o <<"\n   URL: ", "\n   Title: ">>
    ELSE NEXT_STEP_PROMPT

\* run() is inherited
BrowserRun ==
    /\ spc = "begin"
    /\ Run
    /\ UNCHANGED subVars

\* think() up to super().think(): the browser state, the screenshot message
\* and the formatted prompt
BrowserThinkBegin ==
    /\ spc = "begin"
    /\ pc = "think"
    /\ \E bs \in BrowserStates :
          /\ current_base64_image' = BrowserStateImage(bs, current_base64_image)
          /\ messages' =
                IF BrowserStateKnown(bs) /\ Truthy(current_base64_image')
                THEN Append(messages,
                            [UserMessage(<<"Current browser screenshot:">>)
                               EXCEPT !.base64_image = current_base64_image'])
                ELSE messages
          /\ next_step_prompt' = BrowserPrompt(bs)
    /\ spc' = "super"
    /\ UNCHANGED <<state, tool_calls, current_step, max_steps, tool_choices,
                   max_observe, pc, act_i, results, step_result, think_result, raised,
                   calls_left, next_id, thinks, executed, invoked, acts, oracle_reply,
                   env, last_outcome, browser_events, mcpVars, sweVars>>

\* think() from super().think() on: the prompt is reset unless the call raised
BrowserThinkSuper ==
    /\ spc = "super"
    /\ ThinkOver(BrowserNames)
    /\ next_step_prompt' = IF pc' = "raised" THEN next_step_prompt ELSE NEXT_STEP_PROMPT
    /\ spc' = "begin"
    /\ UNCHANGED <<browser_events, mcpVars, sweVars>>

\* act() is inherited
BrowserActNoCalls ==
    /\ ActNoCalls
    /\ UNCHANGED subVars

\* one iteration of the inherited act() loop over the BrowserAgent's
\* execute_tool, and the return after the last one
BrowserActCall ==
    /\ pc = "act"
    /\ act_i \in 1..Len(tool_calls)
    /\ LET command == CommandAt(tool_calls, act_i)
       IN \E out \in BrowserOutcomes(command.name) :
          LET r == BrowserExecuteTool(command, out, state,
                                      ResetImage(current_base64_image), browser_events)
              observed == IF max_observe # 0 THEN Truncate(r.observation, max_observe)
                        ELSE r.observation
          IN /\ state' = r.state
             /\ browser_events' = r.events
             /\ last_outcome' = out
             /\ current_base64_image' = r.image
             /\ messages' = Append(messages,
                                   ToolMessage(observed, command.id, command.name, r.image))
             /\ executed' = Append(executed, command.id)
             /\ invoked' = IF r.invoked THEN Append(invoked, command.id) ELSE invoked
             /\ results' = Append(results, observed)
             /\ act_i' = act_i + 1
             /\ IF act_i = Len(tool_calls)
                THEN /\ step_result' = Join(results')
                     /\ NextIteration(r.state, current_step)
                ELSE UNCHANGED <<pc, current_step, step_result>>
    /\ UNCHANGED <<tool_calls, max_steps, tool_choices, max_observe, think_result,
                   raised, calls_left, next_id, thinks, acts, oracle_reply, env,
                   spc, next_step_prompt, mcpVars, sweVars>>

\* ---------------------------------------------------- app/agent/mcp.py
\* MCPAgent._refresh_tools_interval
REFRESH_TOOLS_INTERVAL == 5

\* the tools an MCP server offers (app/mcp/server.py registers these among
\* others), the lists it may report, and the names the oracle may propose
McpServerTools == {"bash", "terminate"}
McpToolLists == {McpServerTools, {"bash"}, {}}
McpNames == {"bash", "terminate"}

\* ", ".join(names)
NamesText(names) ==
    (IF "bash" \in names THEN <<"bash">> ELSE <<>>)
    \o (IF "terminate" \in names THEN <<"terminate">> ELSE <<>>)

SystemMessage(content) == [UserMessage(content) EXCEPT !.role = "system"]

\* _refresh_tools with the server reporting the tools listed: the schemas it
\* stores and the notices it adds to the log
RefreshedMessages(schemas, listed, msgs) ==
    LET added == listed \ schemas
        removed == schemas \ listed
        m1 == IF added # {}
              THEN Append(msgs, SystemMessage(<<"New tools available: ">> \o NamesText(added)))
              ELSE msgs
    IN IF removed # {}
       THEN Append(m1, SystemMessage(<<"Tools no longer available: ">> \o NamesText(removed)))
       ELSE m1

\* what the await on session.list_tools() may bring: the server's list, with
\* the clients' connection kept or dropped meanwhile, or a failure
RefreshOutcomes ==
    {[kind |-> "listed", tools |-> t, lost |-> l] : t \in McpToolLists, l \in BOOLEAN}
    \cup {[kind |-> "raises", tools |-> {}, lost |-> TRUE]}

\* MCPClients.disconnect: the session and the tool map it leaves
Disconnected == [session |-> FALSE, tool_map |-> {}]

\* initialize(): the connection, the first refresh and the system message; a
\* failed initialize() leaves the agent unconnected
McpInitialize ==
    /\ spc = "new"
    /\ \E connect \in {"failed"} \cup {"connected"} \X McpToolLists :
          IF connect = "failed"
          THEN UNCHANGED <<messages, mcp_session, mcp_tool_map, tool_schemas>>
          ELSE /\ mcp_session' = TRUE
               /\ mcp_tool_map' = connect[2]
               /\ tool_schemas' = connect[2]
               /\ messages' = Append(RefreshedMessages(tool_schemas, connect[2], messages),
                                     SystemMessage(<<"system prompt",
                                                     "\n\nAvailable MCP tools: ">>
                                                   \o NamesText(connect[2])))
    /\ spc' = "begin"
    /\ UNCHANGED <<state, tool_calls, current_base64_image, current_step, max_steps,
                   tool_choices, max_observe, pc, act_i, results, step_result,
                   think_result, raised, calls_left, next_id, thinks, executed, invoked,
                   acts, oracle_reply, env, last_outcome, next_step_prompt,
                   browser_events, mcp_events, sweVars>>

\* run(): the inherited loop starts
McpRun ==
    /\ spc = "begin"
    /\ Run
    /\ UNCHANGED subVars

\* a think() that notes the event and goes on to consult the oracle
McpThinkConsults(event) ==
    /\ mcp_events' = Append(mcp_events, event)
    /\ spc' = "super"
    /\ UNCHANGED <<state, pc, current_step, act_i, results, step_result, think_result,
                   acts, raised>>

\* think() returns False with the state set to FINISHED
McpThinkFinishes(event) ==
    /\ state' = FINISHED
    /\ mcp_events' = Append(mcp_events, event)
    /\ StepAfterThink(FALSE, FINISHED)
    /\ UNCHANGED <<spc, raised>>

\* the periodic refresh is due at this step
RefreshDue(step) == step % REFRESH_TOOLS_INTERVAL = 0

\* think() up to super().think(): the availability test and the periodic
\* refresh
McpThinkBegin ==
    /\ spc = "begin"
    /\ pc = "think"
    /\ IF ~mcp_session \/ mcp_tool_map = {}
       THEN /\ McpThinkFinishes("unavailable")
            /\ UNCHANGED <<messages, mcp_session, mcp_tool_map, tool_schemas>>
       ELSE IF RefreshDue(current_step)
       THEN \E o \in RefreshOutcomes :
              /\ mcp_session' = IF o.lost THEN Disconnected.session ELSE mcp_session
              /\ mcp_tool_map' = IF o.lost THEN Disconnected.tool_map ELSE mcp_tool_map
              /\ IF o.kind = "raises"
                 THEN /\ pc' = "raised"
                      /\ raised' = "list_tools"
                      /\ UNCHANGED <<state, messages, tool_schemas, mcp_events, spc,
                                     current_step, act_i, results, step_result,
                                     think_result, acts>>
                 ELSE /\ tool_schemas' = o.tools
                      /\ messages' = RefreshedMessages(tool_schemas, o.tools, messages)
                      /\ IF mcp_tool_map' = {}
                         THEN McpThinkFinishes("shutdown")
                         ELSE /\ spc' = "super"
                              /\ UNCHANGED <<state, mcp_events, pc, current_step, act_i,
                                             results, step_result, think_result, acts,
                                             raised>>
       ELSE /\ spc' = "super"
            /\ UNCHANGED <<state, messages, mcp_session, mcp_tool_map, tool_schemas,
                           mcp_events, pc, current_step, act_i, results, step_result,
                           think_result, acts, raised>>
    /\ UNCHANGED <<tool_calls, current_base64_image, max_steps, tool_choices,
                   max_observe, calls_left, next_id, thinks, executed, invoked,
                   oracle_reply, env, last_outcome, next_step_prompt, browser_events,
                   sweVars>>

\* what the oracle answers an MCPAgent: a response with text and up to limit
\* calls, or a failure that think() re-raises
McpReplies(limit) ==
    {reply \in OracleRepliesOver(McpNames, limit) :
        \/ reply.kind = "value_error"
        \/ reply.kind = "response" /\ reply.content = <<"text">>}

\* think() from super().think() on
McpThinkSuper ==
    /\ spc = "super"
    /\ ThinkWith(McpReplies(calls_left))
    /\ spc' = "begin"
    /\ UNCHANGED <<next_step_prompt, browser_events, mcpVars, sweVars>>

\* MCPAgent._should_finish_execution
McpShouldFinishExecution(name) == name = "terminate"

\* MCPAgent._handle_special_tool: the base handler with the overriding
\* predicate, then the notice about a multimedia result
McpHandleSpecialTool(name, res, st, msgs) ==
    [state |-> IF IsSpecialTool(name) /\ McpShouldFinishExecution(name)
               THEN FINISHED ELSE st,
     messages |-> IF Truthy(res.base64_image)
                  THEN Append(msgs, SystemMessage(<<"multimedia response of ", name>>))
                  ELSE msgs]

McpOutcomes(name, tools) ==
    IF name \notin tools THEN {NoOutcome}
    ELSE {[parses |-> TRUE, raises |-> TRUE, result |-> NoOutcome.result]}
         \cup {[parses |-> TRUE, raises |-> FALSE, result |-> r] :
                 r \in IF IsSpecialTool(name) THEN {ToolResult("out", None, None, None)}
                       ELSE {ToolResult("out", None, None, None),
                             ToolResult("out", None, "shot", None)}}

\* act() is inherited
McpActNoCalls ==
    /\ ActNoCalls
    /\ UNCHANGED subVars

\* one iteration of the inherited act() loop over the tool map of the MCP
\* clients, and the return after the last one
McpActCall ==
    /\ pc = "act"
    /\ act_i \in 1..Len(tool_calls)
    /\ LET command == CommandAt(tool_calls, act_i)
       IN \E out \in McpOutcomes(command.name, mcp_tool_map) :
          LET r == ExecuteToolIn(mcp_tool_map, command, out, state,
                                 ResetImage(current_base64_image))
              handled == r.invoked /\ ~out.raises
              h == McpHandleSpecialTool(command.name, out.result, state, messages)
              observed == IF max_observe # 0 THEN Truncate(r.observation, max_observe)
                        ELSE r.observation
          IN /\ state' = IF handled THEN h.state ELSE r.state
             /\ last_outcome' = out
             /\ current_base64_image' = r.image
             /\ messages' = Append(IF handled THEN h.messages ELSE messages,
                                   ToolMessage(observed, command.id, command.name, r.image))
             /\ executed' = Append(executed, command.id)
             /\ invoked' = IF r.invoked THEN Append(invoked, command.id) ELSE invoked
             /\ results' = Append(results, observed)
             /\ act_i' = act_i + 1
             /\ IF act_i = Len(tool_calls)
                THEN /\ step_result' = Join(results')
                     /\ NextIteration(state', current_step)
                ELSE UNCHANGED <<pc, current_step, step_result>>
    /\ UNCHANGED <<tool_calls, max_steps, tool_choices, max_observe, think_result,
                   raised, calls_left, next_id, thinks, acts, oracle_reply, env,
                   subVars>>

\* a run() that disconnects only when the loop returned
SessionAfterRunOnReturn(session, outcome) ==
    IF outcome = "returned" /\ session THEN Disconnected.session ELSE session

\* run()'s finally clause: cleanup() disconnects a connected session however
\* the loop ended
SessionAfterRun(session, outcome) ==
    IF session THEN Disconnected.session ELSE session

\* run() after super().run() returned or raised: cleanup(), then the result
\* is returned or the failure propagates
McpCleanup ==
    /\ spc = "begin"
    /\ pc \in {"returned", "raised"}
    /\ mcp_session' = SessionAfterRun(mcp_session, pc)
    /\ mcp_tool_map' = IF mcp_session' = mcp_session THEN mcp_tool_map
                       ELSE Disconnected.tool_map
    /\ mcp_events' = IF mcp_session' = mcp_session THEN mcp_events
                     ELSE Append(mcp_events, "disconnect")
    /\ spc' = "done"
    /\ UNCHANGED <<agentVars, next_step_prompt, browser_events, tool_schemas, sweVars>>

\* ---------------------------------------------------- app/agent/swe.py
\* the tool map of SWEAgent.available_tools, and the names its oracle may put
\* in a proposed call
SweTools == {"bash", "str_replace_editor", "terminate"}
SweNames == {"bash", "terminate"}

\* the directories the shell may be in
Dirs == {"/a", "/b"}

\* NEXT_STEP_TEMPLATE: a text with a placeholder for the current directory
NEXT_STEP_TEMPLATE == <<"(Current directory: ", "{current_dir}", ")">>

\* prompt.format(current_dir=dir): every placeholder is replaced, the rest of
\* the text is kept
Format(prompt, dir) ==
    [i \in DOMAIN prompt |-> IF prompt[i] = "{current_dir}" THEN dir ELSE prompt[i]]

\* run() is inherited
SweRun ==
    /\ spc = "begin"
    /\ Run
    /\ UNCHANGED <<subVars, toolVars>>

\* think() up to super().think(): pwd in the agent's own bash, the working
\* directory, and the prompt formatted from the prompt of the think() before
SweThinkBegin ==
    /\ spc = "begin"
    /\ pc = "think"
    /\ \E start_ok \in BOOLEAN, in_time \in BOOLEAN :
          LET o == BashExecuteOutcome(bash_session, "pwd", FALSE, start_ok, in_time)
          IN /\ bash_session' = o.session
             /\ IF o.ended.kind = "raised"
                THEN /\ pc' = "raised"
                     /\ raised' = "ToolError"
                     /\ UNCHANGED <<working_dir, next_step_prompt, spc>>
                ELSE /\ working_dir' = IF o.ended.cause = "output" THEN shell_dir ELSE None
                     /\ next_step_prompt' = Format(next_step_prompt, working_dir')
                     /\ spc' = "super"
                     /\ UNCHANGED <<pc, raised>>
    /\ UNCHANGED <<state, messages, tool_calls, current_base64_image, current_step,
                   max_steps, tool_choices, max_observe, act_i, results, step_result,
                   think_result, calls_left, next_id, thinks, executed, invoked, acts,
                   oracle_reply, env, last_outcome, browser_events, mcpVars, shell_dir,
                   shared_bash, tool_log>>

\* think() from super().think() on
SweThinkSuper ==
    /\ spc = "super"
    /\ ThinkOver(SweNames)
    /\ spc' = "begin"
    /\ UNCHANGED <<next_step_prompt, browser_events, mcpVars, sweVars, toolVars>>

\* act() is inherited
SweActNoCalls ==
    /\ ActNoCalls
    /\ UNCHANGED <<subVars, toolVars>>

SweOutcomes(name) ==
    IF name \notin SweTools THEN {NoOutcome}
    ELSE {[parses |-> TRUE, raises |-> FALSE, result |-> r] :
            r \in IF IsSpecialTool(name) THEN {ToolResult("out", None, None, None)}
                  ELSE PlainResults}

\* the directories a command of the bash tool may leave the agent's shell in:
\* any, when the tool and the agent's bash are one object
DirsAfter(name, invoked_now) ==
    IF shared_bash /\ name = "bash" /\ invoked_now THEN Dirs ELSE {shell_dir}

\* one iteration of the inherited act() loop over the SWEAgent's tools, and
\* the return after the last one
SweActCall ==
    /\ pc = "act"
    /\ act_i \in 1..Len(tool_calls)
    /\ LET command == CommandAt(tool_calls, act_i)
       IN \E out \in SweOutcomes(command.name) :
          LET r == ExecuteToolIn(SweTools, command, out, state,
                                 ResetImage(current_base64_image))
              observed == IF max_observe # 0 THEN Truncate(r.observation, max_observe)
                        ELSE r.observation
          IN /\ state' = r.state
             /\ shell_dir' \in DirsAfter(command.name, r.invoked)
             /\ last_outcome' = out
             /\ current_base64_image' = r.image
             /\ messages' = Append(messages,
                                   ToolMessage(observed, command.id, command.name, r.image))
             /\ executed' = Append(executed, command.id)
             /\ invoked' = IF r.invoked THEN Append(invoked, command.id) ELSE invoked
             /\ results' = Append(results, observed)
             /\ act_i' = act_i + 1
             /\ IF act_i = Len(tool_calls)
                THEN /\ step_result' = Join(results')
                     /\ NextIteration(r.state, current_step)
                ELSE UNCHANGED <<pc, current_step, step_result>>
    /\ UNCHANGED <<tool_calls, max_steps, tool_choices, max_observe, think_result,
                   raised, calls_left, next_id, thinks, acts, oracle_reply, env,
                   spc, next_step_prompt, browser_events, mcpVars, working_dir,
                   shared_bash, toolVars>>

\* ------------------------------------------------------- specifications
AgentWith(msgs, steps, calls, observes, envs) ==
    /\ state = IDLE
    /\ messages = msgs
    /\ tool_calls = <<>>
    /\ current_base64_image = None
    /\ current_step = 0
    /\ max_steps = steps
    /\ tool_choices \in ToolChoices
    /\ max_observe \in observes
    /\ pc = "idle"
    /\ act_i = 0
    /\ results = <<>>
    /\ step_result = <<>>
    /\ think_result = FALSE
    /\ raised = None
    /\ calls_left = calls
    /\ next_id = 1
    /\ thinks = 0
    /\ executed = <<>>
    /\ invoked = <<>>
    /\ acts = 0
    /\ oracle_reply = [kind |-> "unasked", content |-> <<>>, names |-> <<>>]
    /\ env \in envs
    /\ last_outcome = NoOutcome

AgentInit(steps, calls, observes, envs) == AgentWith(<<>>, steps, calls, observes, envs)

\* no agent run: the flow sees its executors through agent_state alone; the
\* executors are configured with max_steps, which bounds the loop inside one
\* run of an executor
AgentOff ==
    /\ AgentInit(MaxSteps, 0, {0}, {"any"})
    /\ tool_choices = AUTO

\* a run of a ToolCallAgent
Init == AgentInit(MaxSteps, MaxCalls, {0}, {"any"}) /\ FlowOff /\ PlanOff /\ ToolsOff /\ SubOff

Next ==
    \/ Run /\ UNCHANGED <<flowVars, planVars, toolVars, pipelineVars, subVars>>
    \/ Think /\ UNCHANGED <<flowVars, planVars, toolVars, pipelineVars, subVars>>
    \/ ActNoCalls /\ UNCHANGED <<flowVars, planVars, toolVars, pipelineVars, subVars>>
    \/ ActCall /\ UNCHANGED <<flowVars, planVars, toolVars, pipelineVars, subVars>>

Spec == Init /\ [][Next]_vars

\* one decision cycle over up to MaxOrderCalls simultaneous calls
OrderInit == AgentInit(1, MaxOrderCalls, {0, MaxObserve}, {"plain"}) /\ FlowOff /\ PlanOff /\ ToolsOff
             /\ SubOff

OrderSpec == OrderInit /\ [][Next]_vars

\* PlanningFlow.execute
FlowSpecInit == AgentOff /\ FlowInit /\ PlanOff /\ ToolsOff /\ SubOff

FlowNext ==
    \/ StartExecute /\ UNCHANGED <<agentVars, planVars, toolVars, pipelineVars, subVars>>
    \/ SelectStep /\ UNCHANGED <<agentVars, planVars, toolVars, pipelineVars, subVars>>
    \/ StepDone /\ UNCHANGED <<agentVars, planVars, toolVars, pipelineVars, subVars>>
    \/ FinalizePlan /\ UNCHANGED <<agentVars, planVars, toolVars, pipelineVars, subVars>>

FlowSpec == FlowSpecInit /\ [][FlowNext]_vars

\* a run of a PlanningAgent: tool_choices as the class sets it, the planning
\* tool driven by the agent alone
PlanSpecInit ==
    /\ AgentInit(MaxSteps, MaxCalls, {0}, {"plain"})
    /\ tool_choices = AUTO
    /\ FlowOff
    /\ PlanInit
    /\ ToolsOff
    /\ SubOff

PlanNext ==
    \/ PlanCreateInitialPlan /\ UNCHANGED <<flowVars, toolVars, pipelineVars, subVars>>
    \/ PlanRun /\ UNCHANGED <<flowVars, toolVars, pipelineVars, subVars>>
    \/ PlanThinkBegin /\ UNCHANGED <<flowVars, toolVars, pipelineVars, subVars>>
    \/ PlanThinkSuper /\ UNCHANGED <<flowVars, toolVars, pipelineVars, subVars>>
    \/ PlanActNoCalls /\ UNCHANGED <<flowVars, toolVars, pipelineVars, subVars>>
    \/ PlanActCall /\ UNCHANGED <<flowVars, toolVars, pipelineVars, subVars>>

PlanSpec == PlanSpecInit /\ [][PlanNext]_vars

\* _get_current_step_index on every plan the tool may hold
IndexInit ==
    /\ AgentOff
    /\ FlowOff
    /\ ppc = "index"
    /\ active_plan \in PlanningPlans
    /\ planning_step_index = NoIndex
    /\ step_execution_tracker = <<>>
    /\ ToolsOff
    /\ SubOff

IndexNext == FindCurrentStep /\ UNCHANGED <<agentVars, flowVars, toolVars, pipelineVars, subVars>>

IndexSpec == IndexInit /\ [][IndexNext]_vars

\* invocations of the bash and python_execute tools
ToolInit == AgentOff /\ FlowOff /\ PlanOff /\ ToolsInit /\ PipelineInit /\ SubOff

ToolNext ==
    \/ BashExecute /\ UNCHANGED <<agentVars, flowVars, planVars, pipelineVars, subVars>>
    \/ BashProcessExits /\ UNCHANGED <<agentVars, flowVars, planVars, pipelineVars, subVars>>
    \/ PythonExecute /\ UNCHANGED <<agentVars, flowVars, planVars, pipelineVars, subVars>>

ToolSpec == ToolInit /\ [][ToolNext]_vars

\* calls of PipelineAgent.execute_tool, before and after initialize()
PipelineSpecInit == AgentOff /\ FlowOff /\ PlanOff /\ ToolsInit /\ PipelineInit /\ SubOff

PipelineNext ==
    \/ PipelineInitialize /\ UNCHANGED <<flowVars, planVars, toolVars, subVars>>
    \/ PipelineExecuteToolCall /\ UNCHANGED <<flowVars, planVars, toolVars, subVars>>

PipelineSpec == PipelineSpecInit /\ [][PipelineNext]_vars

\* ---- update_pipeline_status over every record of the five stages
\* the tools of the five stages, in the order of the pipeline
StageOrder == <<"wireframe_generator", "wireframe_html", "html_to_api_doc",
                "html_to_vue", "html_to_springboot">>

\* a call whose arguments, a JSON text, carry both optional keys
StageCall(name) ==
    [id |-> 1, name |-> name, arguments |-> [type |-> "str", keys |-> ArgKeys]]

StageCommands == {StageCall(name) : name \in PipelineNames}

\* how the earlier call of a stage's tool ended, if it was made
StageEnds == {"none", "succeeds", "fails"}

\* the dicts an initialized agent holds after the calls of execute_tool that
\* ends describes, made in the order of the pipeline from the i-th tool on
RECURSIVE AfterStageCalls(_, _, _)
AfterStageCalls(ends, i, cur) ==
    IF i > Len(StageOrder) THEN cur
    ELSE IF ends[StageOrder[i]] = "none" THEN AfterStageCalls(ends, i + 1, cur)
    ELSE LET out == [parses |-> TRUE, raises |-> ends[StageOrder[i]] = "fails",
                     result |-> IF ends[StageOrder[i]] = "fails" THEN NoOutcome.result
                                ELSE ToolResult(SAVED_TO, None, None, None)]
             r == PipelineExecuteTool(StageCall(StageOrder[i]), out, IDLE,
                                      cur.status, cur.files)
         IN AfterStageCalls(ends, i + 1, [status |-> r.status, files |-> r.files])

\* a PipelineAgent after construction, or after initialize() and any record
\* of earlier calls of the five tools
StageInit ==
    /\ pipeline_calls = 0
    /\ pipeline_last = NoPipelineCall
    /\ \/ /\ AgentOff
          /\ pipeline_status = <<>>
          /\ output_files = <<>>
       \/ /\ AgentWith(InitialMessages(<<>>, <<>>), MaxSteps, 0, {0}, {"any"})
          /\ tool_choices = AUTO
          /\ \E ends \in [PipelineTools \ {"terminate"} -> StageEnds] :
                \E r \in {AfterStageCalls(ends, 1, [status |-> InitialStatus,
                                                     files |-> InitialFiles(<<>>, <<>>)])} :
                   /\ pipeline_status = r.status
                   /\ output_files = r.files

StageExecuteToolCall == PipelineExecuteToolOver(StageCommands, MaxStageCalls)

StageSpecInit == FlowOff /\ PlanOff /\ ToolsInit /\ SubOff /\ StageInit

StageNext ==
    \/ PipelineInitialize /\ UNCHANGED <<flowVars, planVars, toolVars, subVars>>
    \/ StageExecuteToolCall /\ UNCHANGED <<flowVars, planVars, toolVars, subVars>>

StageSpec == StageSpecInit /\ [][StageNext]_vars

\* a run of a BrowserAgent
BrowserSpecInit ==
    /\ AgentInit(MaxSteps, MaxCalls, {BROWSER_MAX_OBSERVE}, {"any"})
    /\ tool_choices = AUTO
    /\ FlowOff
    /\ PlanOff
    /\ ToolsOff
    /\ SubOff

BrowserNext ==
    \/ BrowserRun /\ UNCHANGED <<flowVars, planVars, toolVars, pipelineVars>>
    \/ BrowserThinkBegin /\ UNCHANGED <<flowVars, planVars, toolVars, pipelineVars>>
    \/ BrowserThinkSuper /\ UNCHANGED <<flowVars, planVars, toolVars, pipelineVars>>
    \/ BrowserActNoCalls /\ UNCHANGED <<flowVars, planVars, toolVars, pipelineVars>>
    \/ BrowserActCall /\ UNCHANGED <<flowVars, planVars, toolVars, pipelineVars>>

BrowserSpec == BrowserSpecInit /\ [][BrowserNext]_vars

\* an MCPAgent from construction: initialize(), then run()
McpSpecInit ==
    /\ AgentInit(MaxMcpSteps, MaxMcpCalls, {0}, {"any"})
    /\ tool_choices = AUTO
    /\ FlowOff
    /\ PlanOff
    /\ ToolsOff
    /\ spc = "new"
    /\ next_step_prompt = NEXT_STEP_PROMPT
    /\ browser_events = <<>>
    /\ mcp_session = FALSE
    /\ mcp_tool_map = {}
    /\ tool_schemas = {}
    /\ mcp_events = <<>>
    /\ working_dir = "."
    /\ shell_dir = "/a"
    /\ shared_bash = FALSE

McpNext ==
    \/ McpInitialize /\ UNCHANGED <<flowVars, planVars, toolVars, pipelineVars>>
    \/ McpRun /\ UNCHANGED <<flowVars, planVars, toolVars, pipelineVars>>
    \/ McpThinkBegin /\ UNCHANGED <<flowVars, planVars, toolVars, pipelineVars>>
    \/ McpThinkSuper /\ UNCHANGED <<flowVars, planVars, toolVars, pipelineVars>>
    \/ McpActNoCalls /\ UNCHANGED <<flowVars, planVars, toolVars, pipelineVars>>
    \/ McpActCall /\ UNCHANGED <<flowVars, planVars, toolVars, pipelineVars>>
    \/ McpCleanup /\ UNCHANGED <<flowVars, planVars, toolVars, pipelineVars>>

McpSpec == McpSpecInit /\ [][McpNext]_vars

\* a run of a SWEAgent, whose bash is its own or the one of its tool collection
SweSpecInit ==
    /\ AgentInit(MaxSteps, MaxCalls, {0}, {"plain"})
    /\ tool_choices = AUTO
    /\ FlowOff
    /\ PlanOff
    /\ ToolsOff
    /\ spc = "begin"
    /\ next_step_prompt = NEXT_STEP_TEMPLATE
    /\ browser_events = <<>>
    /\ mcp_session = FALSE
    /\ mcp_tool_map = {}
    /\ tool_schemas = {}
    /\ mcp_events = <<>>
    /\ working_dir = "."
    /\ shell_dir = "/a"
    /\ shared_bash \in BOOLEAN

SweNext ==
    \/ SweRun /\ UNCHANGED <<flowVars, planVars, pipelineVars>>
    \/ SweThinkBegin /\ UNCHANGED <<flowVars, planVars, pipelineVars>>
    \/ SweThinkSuper /\ UNCHANGED <<flowVars, planVars, pipelineVars>>
    \/ SweActNoCalls /\ UNCHANGED <<flowVars, planVars, pipelineVars>>
    \/ SweActCall /\ UNCHANGED <<flowVars, planVars, pipelineVars>>

SweSpec == SweSpecInit /\ [][SweNext]_vars

\* ================================================================ claims
IsToolMessage(m) == m.role = "tool"

\* the tool_call_id of the tool-role messages of the log, in log order
ToolMessageIds ==
    LET tm == SelectSeq(messages, IsToolMessage)
    IN [i \in 1..Len(tm) |-> tm[i].tool_call_id]

CallIds(calls) == [i \in 1..Len(calls) |-> calls[i].id]

\* ---------------------------------------------------------------- C1
\* C1: within the decision cycle, after n passes of act()'s loop exactly the
\* first n proposed calls have been executed, in the proposed order, and the
\* tool-role messages of the log answer exactly those calls in that order;
\* when act() has returned, n is the number of proposed calls (1 to
\* MaxOrderCalls of them).
C1_ResultsInProposedOrder ==
    (pc \in {"act", "returned"} /\ think_result) =>
        LET n == IF pc = "act" THEN act_i - 1 ELSE Len(tool_calls)
        IN /\ executed = SubSeq(CallIds(tool_calls), 1, n)
           /\ ToolMessageIds = executed
           /\ Len(results) = n

C1_Witness ==
    /\ pc = "returned"
    /\ Len(tool_calls) = MaxOrderCalls
    /\ ToolMessageIds = CallIds(tool_calls)
    /\ \E i \in 1..Len(tool_calls) : tool_calls[i].name = "frobnicate"

\* ---------------------------------------------------------------- C6
\* a tool-role message that reports the output of a special tool
SpecialToolSucceeded ==
    \E i \in 1..Len(messages) :
        /\ messages[i].role = "tool"
        /\ IsSpecialTool(messages[i].name)
        /\ messages[i].content # <<>>
        /\ messages[i].content[1] = "Observed output of cmd '"

\* C6: once a special tool (terminate) has executed successfully the state is
\* FINISHED, it stays FINISHED, and no further think() is called in the run.
C6_SpecialToolFinishesRun ==
    [][SpecialToolSucceeded => (state = FINISHED /\ state' = FINISHED /\ thinks' = thinks)]_vars

C6_Witness ==
    /\ SpecialToolSucceeded
    /\ pc = "returned"
    /\ state = FINISHED
    /\ current_step < max_steps

\* ---------------------------------------------------------------- C7
\* the literal of the synthetic message contains the words "token limit"
HasTokenLimitText(content) ==
    /\ content # <<>>
    /\ content[1] = "Maximum token limit reached, cannot continue execution: "

\* C7: a think() whose oracle request fails on the token limit leaves the
\* state FINISHED, appends a message containing "token limit", returns false,
\* and step() returns "Thinking complete - no action needed" with no act().
C7_TokenLimitFinishes ==
    [][(pc = "think" /\ thinks' = thinks + 1 /\ oracle_reply'.kind = "token_limit") =>
          /\ state' = FINISHED
          /\ Len(messages') > Len(messages)
          /\ HasTokenLimitText(messages'[Len(messages')].content)
          /\ think_result' = FALSE
          /\ step_result' = NO_ACTION_NEEDED
          /\ acts' = acts
          /\ executed' = executed]_vars

C7_Witness ==
    /\ oracle_reply.kind = "token_limit"
    /\ thinks = 2
    /\ state = FINISHED
    /\ step_result = NO_ACTION_NEEDED

\* ---------------------------------------------------------------- C8
\* C8: under the NONE policy the log never holds a message that carries
\* tool calls or answers one.
C8_NoneNeverLogsToolCalls ==
    tool_choices = NONE =>
        \A i \in 1..Len(messages) :
            messages[i].role # "tool" /\ messages[i].tool_calls = <<>>

\* ---------------------------------------------------------------- C9
\* C9: under the NONE policy, after a think() that got a response no tool call
\* is pending or executed, and think() returned true exactly when the free
\* text was non-empty.
C9_NoneDiscardsCalls ==
    (tool_choices = NONE /\ oracle_reply.kind = "response") =>
        /\ tool_calls = <<>>
        /\ executed = <<>>
        /\ think_result = (oracle_reply.content # <<>>)

\* -------------------------------------------------- PlanningFlow claims
Plan == plans[ACTIVE_PLAN_ID]

StatusOf(statuses, i) == statuses[i + 1]

InProgressSteps == {i \in 0..(Len(Plan.step_statuses) - 1) :
                        StatusOf(Plan.step_statuses, i) = IN_PROGRESS}

AllCompleted ==
    /\ Plan.exists
    /\ \A i \in 0..(Len(Plan.steps) - 1) :
          i < Len(Plan.step_statuses) /\ StatusOf(Plan.step_statuses, i) = COMPLETED

\* ---------------------------------------------------------------- C2
\* C2: a selection returns the lowest index whose status is not_started or
\* in_progress and leaves that step in_progress; on the default plan with all
\* steps not_started it returns index 0 with no type tag, and with step 0
\* completed it returns index 1.
C2_SelectsLowestActive ==
    [][(fpc = "select" /\ fpc' = "running") =>
          LET i == current_step_index'
              old == Plan.step_statuses
              new == plans'[ACTIVE_PLAN_ID].step_statuses
          IN /\ i \in 0..(Len(Plan.steps) - 1)
             /\ StatusOf(old, i) \in {NOT_STARTED, IN_PROGRESS}
             /\ \A j \in 0..(i - 1) : StatusOf(old, j) \notin {NOT_STARTED, IN_PROGRESS}
             /\ StatusOf(new, i) = IN_PROGRESS
             /\ \A j \in 0..(Len(old) - 1) : j # i => StatusOf(new, j) = StatusOf(old, j)
             /\ step_info'.text = Plan.steps[i + 1]
             /\ (Plan.steps = DefaultSteps =>
                    /\ step_info'.type = None
                    /\ (old = <<NOT_STARTED, NOT_STARTED, NOT_STARTED>> => i = 0)
                    /\ (old = <<COMPLETED, NOT_STARTED, NOT_STARTED>> => i = 1))]_vars

C2_Witness ==
    /\ fpc = "running"
    /\ Plan.steps = DefaultSteps
    /\ Plan.step_statuses = <<COMPLETED, IN_PROGRESS, NOT_STARTED>>
    /\ current_step_index = 1
    /\ step_info.type = None

\* ---------------------------------------------------------------- C3
\* C3: at most one step is in_progress, at most one executor run is in
\* flight, and none is in flight where execute() selects a step or finalizes.
C3_StrictlySequential ==
    /\ Cardinality(InProgressSteps) <= 1
    /\ Cardinality(running) <= 1
    /\ (fpc \in {"select", "finalize", "done"} => running = {})
    /\ (fpc = "running" => running = {current_step_index})

C3_Witness ==
    /\ fpc = "running"
    /\ current_step_index = 1
    /\ last_run = "raised"
    /\ InProgressSteps = {1}

\* ---------------------------------------------------------------- C4
\* C4: when the executor's run returns, the selected step is completed; when
\* it raises, the step's result is the exception text, no status changes
\* (the step is neither completed nor blocked), and the loop goes on to its
\* next selection.
C4_CompletedIffRunReturned ==
    [][fpc = "running" =>
          LET i == current_step_index
              new == plans'[ACTIVE_PLAN_ID].step_statuses
          IN /\ last_run' \in {"returned", "raised"}
             /\ (last_run' = "returned" => StatusOf(new, i) = COMPLETED)
             /\ (last_run' = "raised" =>
                    /\ new = Plan.step_statuses
                    /\ StatusOf(new, i) = IN_PROGRESS
                    /\ step_result_text' =
                          <<"Error executing step ", ToString(i), ": ", "run failed">>
                    /\ fpc' = "select")
             /\ (StatusOf(new, i) = COMPLETED <=> last_run' = "returned")]_vars

C4_Witness ==
    /\ fpc = "select"
    /\ last_run = "raised"
    /\ current_step_index = 1
    /\ Plan.step_statuses[1] = COMPLETED
    /\ Plan.step_statuses[2] = IN_PROGRESS

\* ---------------------------------------------------------------- C5
\* C5: a selection over a plan whose steps are all completed finds no active
\* step and goes to finalize, which has not run before; finalize runs once and
\* execute() returns.
C5_FinalizeOnceWhenAllCompleted ==
    [][/\ (fpc = "select" /\ AllCompleted) =>
             (current_step_index' = NoIndex /\ fpc' = "finalize" /\ finalize_calls = 0)
       /\ fpc = "finalize" =>
             (fpc' = "done" /\ finalize_calls' = 1 /\ ret' = result' /\ ret' # <<>>)
       /\ fpc = "done" => finalize_calls' = finalize_calls]_vars

C5_Witness ==
    /\ fpc = "done"
    /\ AllCompleted
    /\ Len(Plan.steps) = MaxPlanSteps
    /\ current_step_index = NoIndex
    /\ finalize_calls = 1

\* --------------------------------------------------------------- C10
\* C10: the step-status array of the plan is never shorter than its step
\* list, whether the last write went through the store or was the local
\* fallback.
C10_StatusesCoverSteps ==
    Plan.exists => Len(Plan.step_statuses) >= Len(Plan.steps)

C10_Witness ==
    /\ Plan.exists
    /\ Len(Plan.steps) = MaxPlanSteps
    /\ last_write = "local"
    /\ fpc = "running"
    /\ current_step_index = 0

\* --------------------------------------------------------------- C11
\* C11: where a selection has just returned a step, a second selection over
\* the plan it left returns the same index and step_info and leaves every
\* status as it is, whether the store's mark_step works or raises in either
\* call; and over any plan the store holds, selecting twice leaves the plan
\* the first selection left.
C11_SelectionIdempotent ==
    /\ fpc = "running" =>
          \A m \in BOOLEAN :
             /\ GetCurrentStepInfo(Plan, m).index = current_step_index
             /\ GetCurrentStepInfo(Plan, m).info = step_info
             /\ GetCurrentStepInfo(Plan, m).plan = Plan
    /\ \A m1 \in BOOLEAN, m2 \in BOOLEAN :
          LET first == GetCurrentStepInfo(Plan, m1)
              second == GetCurrentStepInfo(first.plan, m2)
          IN second.index = first.index /\ second.plan = first.plan

C11_Witness ==
    /\ fpc = "running"
    /\ last_write = "local"
    /\ Plan.step_statuses = <<COMPLETED, IN_PROGRESS, NOT_STARTED>>
    /\ GetCurrentStepInfo(Plan, FALSE).index = 1
    /\ GetCurrentStepInfo(Plan, FALSE).plan = Plan

\* --------------------------------------------------------------- C12
\* the first n steps of the plan are completed
CompletedPrefix(n) ==
    /\ n <= Len(Plan.step_statuses)
    /\ \A j \in 0..(n - 1) : StatusOf(Plan.step_statuses, j) = COMPLETED

\* execute() returned the text of its except branch
Aborted == fpc = "done" /\ ret # <<>> /\ ret[1] = "Execution failed: "

\* C12 as stated: whenever no mark_step of the store has worked and every
\* executor run has returned without raising, an execute() that went through
\* its loop returns with every step completed and finalize called.
C12_StoreFailureNeverStalls ==
    ("store" \notin seen /\ "run raised" \notin seen /\ Plan.exists
        /\ fpc = "done" /\ iterations > 0) =>
        (AllCompleted /\ finalize_calls = 1)

\* C12, amended: a raising mark_step or get never makes execute() return its
\* failure text; and as long as every mark_step has raised and every executor
\* run has returned without raising and without reporting FINISHED, each pass
\* of the loop completes one more step through the cached plan data, the next
\* pass is always possible, and execute() returns only after finalize, with
\* every step completed.
C12_StoreFailureNeverStallsUnlessFinished ==
    /\ (iterations > 0 => ~Aborted)
    /\ ("store" \notin seen /\ "run raised" \notin seen /\ "run finished" \notin seen
           /\ Plan.exists) =>
          /\ fpc = "select" =>
                (CompletedPrefix(iterations) /\ iterations <= Len(Plan.steps)
                   /\ iterations < MaxIterations)
          /\ fpc = "running" =>
                (CompletedPrefix(iterations - 1) /\ InProgressSteps = {iterations - 1})
          /\ fpc = "finalize" => AllCompleted
          /\ (fpc = "done" /\ iterations > 0) => (AllCompleted /\ finalize_calls = 1)

C12_Witness ==
    /\ fpc = "done"
    /\ seen = {"local", "get raised", "run returned"}
    /\ Len(Plan.steps) = MaxPlanSteps
    /\ AllCompleted
    /\ finalize_calls = 1

\* --------------------------------------------------------------- C13
\* C13: finalize always ends with execute() returning a completion text: the
\* oracle's summary when the summary request works, the primary agent's
\* summary when only the oracle fails, and the generic notice when both fail;
\* it never ends in execute()'s failure text.
C13_FinalizeAlwaysReturnsText ==
    [][fpc = "finalize" =>
          LET text == SubSeq(ret', Len(result) + 1, Len(ret'))
          IN /\ fpc' = "done"
             /\ ~Aborted'
             /\ "oracle summary failed" \notin seen' =>
                   text = <<"Plan completed:\n\n", "oracle summary">>
             /\ ("oracle summary failed" \in seen' /\ "agent summary failed" \notin seen') =>
                   text = <<"Plan completed:\n\n", "agent summary">>
             /\ "agent summary failed" \in seen' =>
                   text = <<"Plan completed. Error generating summary.">>]_vars

C13_Witness ==
    /\ fpc = "done"
    /\ finalize_calls = 1
    /\ "oracle summary failed" \in seen
    /\ "agent summary failed" \notin seen
    /\ Len(ret) >= 2
    /\ ret[Len(ret)] = "agent summary"
    /\ AllCompleted
    /\ Len(Plan.steps) = MaxPlanSteps

\* --------------------------------------------------------------- C14
\* C14: when the plan-creation response held no planning call and the store
\* took the create, the loop starts on a plan under the flow's own id whose
\* steps are "Analyze request", "Execute task", "Verify results", each
\* not_started, and no plan exists under any other id.
C14_DefaultPlanWithoutPlanningCall ==
    ("no planning call" \in seen /\ iterations = 0 /\ fpc \in {"select", "done"}
        /\ ~Aborted) =>
        /\ fpc = "select"
        /\ plans[ACTIVE_PLAN_ID].exists
        /\ plans[ACTIVE_PLAN_ID].steps =
              <<"Analyze request", "Execute task", "Verify results">>
        /\ plans[ACTIVE_PLAN_ID].step_statuses = <<NOT_STARTED, NOT_STARTED, NOT_STARTED>>
        /\ \A id \in PlanIds \ {ACTIVE_PLAN_ID} : ~plans[id].exists

C14_Witness ==
    /\ "no planning call" \in seen
    /\ fpc = "select"
    /\ iterations = 0
    /\ plans[ACTIVE_PLAN_ID].steps = <<"Analyze request", "Execute task", "Verify results">>
    /\ plans[ACTIVE_PLAN_ID].step_statuses = <<NOT_STARTED, NOT_STARTED, NOT_STARTED>>

\* --------------------------------------------------------------- C15
\* the step types get_executor may be asked for: no tag, the empty tag, the
\* tags of the oracle's steps and the keys agents are configured under
StepTypes == {None, "", "code", "search", "manus", "default", "ghost"}

\* the positions of the executor keys that name an agent of the map
PresentKeys == {k \in 1..Len(executor_keys) : executor_keys[k] \in agents}

\* C15: for every step type, get_executor returns the agent keyed by the type
\* when the type is given and the agents map has that key, otherwise the
\* agent of the first executor key present in the agents map, otherwise the
\* primary agent; and the executor of a running step is the one get_executor
\* returns for the step's type.
C15_ExecutorChoice ==
    /\ \A t \in StepTypes :
          IF t # None /\ t # "" /\ t \in agents
          THEN GetExecutor(t) = t
          ELSE IF PresentKeys # {}
          THEN \E k \in PresentKeys :
                  /\ \A j \in PresentKeys : k <= j
                  /\ GetExecutor(t) = executor_keys[k]
          ELSE GetExecutor(t) = PrimaryAgent
    /\ fpc = "running" => executor = GetExecutor(step_info.type)

C15_Witness ==
    /\ fpc = "running"
    /\ step_info.type = "code"
    /\ executor_keys = <<"manus", "code">>
    /\ executor = "code"
    /\ GetExecutor("search") = "manus"

\* --------------------------------------------------------------- C16
\* C16: when the executor's state is FINISHED after its run for a step,
\* execute() returns what it has gathered, without finalize and without
\* another selection, whatever steps are still active; and once it has
\* returned nothing more is selected or executed.
C16_FinishedExecutorEndsLoop ==
    [][/\ (fpc = "running" /\ agent_state'[executor] = FINISHED) =>
             /\ fpc' = "done"
             /\ ret' = result'
             /\ iterations' = iterations
             /\ finalize_calls' = finalize_calls
             /\ running' = {}
       /\ fpc = "done" =>
             (fpc' = "done" /\ iterations' = iterations /\ running' = running
                /\ plans' = plans)]_vars

C16_Witness ==
    /\ fpc = "done"
    /\ "run finished" \in seen
    /\ iterations = 1
    /\ finalize_calls = 0
    /\ Len(Plan.steps) = MaxPlanSteps
    /\ Plan.step_statuses[1] = COMPLETED
    /\ FirstActive(Plan.steps, Plan.step_statuses, 0) = 1

\* --------------------------------------------------------------- C17
\* C17: a run that raises for step i changes no status and sends the loop to
\* its next selection; that selection, and every selection that follows a
\* raising run, takes the same step i again and leaves every status as it was.
C17_FailedStepIsRetried ==
    [][/\ (fpc = "running" /\ last_run' = "raised" /\ "run raised" \in seen') =>
             /\ plans' = plans
             /\ current_step_index' = current_step_index
             /\ fpc' = "select"
       /\ (fpc = "select" /\ last_run = "raised" /\ iterations < MaxIterations) =>
             /\ fpc' = "running"
             /\ current_step_index' = current_step_index
             /\ plans'[ACTIVE_PLAN_ID].step_statuses = Plan.step_statuses
             /\ StatusOf(Plan.step_statuses, current_step_index) = IN_PROGRESS]_vars

C17_Witness ==
    /\ fpc = "running"
    /\ iterations = MaxIterations
    /\ current_step_index = 1
    /\ last_run = "raised"
    /\ "run finished" \notin seen
    /\ Plan.step_statuses = <<COMPLETED, IN_PROGRESS, NOT_STARTED>>

\* --------------------------------------------------------------- C18
\* every executor run of this execute() so far has raised
EveryRunRaised == "run returned" \notin seen /\ "run finished" \notin seen

\* C18: a step whose executor raises on every run is not run more often than
\* max_steps allows: while every run so far has raised, the loop has started
\* at most max_steps passes.
C18_RetriesBoundedByMaxSteps ==
    (fpc = "running" /\ EveryRunRaised) => iterations <= max_steps

\* --------------------------------------------------------------- C19
\* C19: an act() that finds no pending tool call raises "Tool calls required
\* but none provided" under the REQUIRED policy; under the other policies it
\* returns the content of the latest message of the log; in both cases no
\* tool is executed and no message is appended.
C19_ActWithoutCalls ==
    [][(pc = "act" /\ tool_calls = <<>>) =>
          /\ messages' = messages
          /\ executed' = executed
          /\ invoked' = invoked
          /\ state' = state
          /\ IF tool_choices = REQUIRED
             THEN /\ pc' = "raised"
                  /\ raised' = "Tool calls required but none provided"
                  /\ step_result' = step_result
             ELSE /\ pc' # "raised"
                  /\ raised' = None
                  /\ messages # <<>>
                  /\ step_result' = messages[Len(messages)].content]_vars

C19_Witness ==
    /\ tool_choices = AUTO
    /\ acts = 1
    /\ thinks = 1
    /\ pc = "think"
    /\ tool_calls = <<>>
    /\ executed = <<>>
    /\ step_result = <<"text">>
    /\ messages[Len(messages)].role = "assistant"

\* --------------------------------------------------------------- C20
\* C20: after a think() that got a response, under AUTO think() returned true
\* exactly when the response held a tool call or non-empty text; under
\* REQUIRED it returned true, and when no call was proposed the step went on
\* to act(), where the run ends with the error.
C20_ThinkReturnByPolicy ==
    oracle_reply.kind = "response" =>
        /\ tool_choices = AUTO =>
              (think_result <=> (oracle_reply.names # <<>> \/ oracle_reply.content # <<>>))
        /\ tool_choices = REQUIRED =>
              /\ think_result
              /\ oracle_reply.names = <<>> =>
                    /\ pc \in {"act", "raised"}
                    /\ tool_calls = <<>>
                    /\ pc = "raised" => raised = TOOL_CALL_REQUIRED[1]

C20_Witness ==
    /\ tool_choices = REQUIRED
    /\ oracle_reply.kind = "response"
    /\ oracle_reply.names = <<>>
    /\ oracle_reply.content = <<>>
    /\ think_result
    /\ thinks = 2
    /\ pc = "raised"

\* --------------------------------------------------------------- C21
\* C21: a think() whose oracle request fails with a ValueError or with any
\* other cause than the token limit ends with that failure raised to its
\* caller: the state stays as it was (RUNNING, not FINISHED), think() returns
\* no value, no synthetic message is appended after the prompt, and no act()
\* follows.
C21_OtherFailuresPropagate ==
    [][(pc = "think" /\ thinks' = thinks + 1
          /\ oracle_reply'.kind \in {"value_error", "error"}) =>
          /\ pc' = "raised"
          /\ raised' = oracle_reply'.kind
          /\ state' = state
          /\ state' = RUNNING
          /\ messages' = Append(messages, UserMessage(NEXT_STEP_PROMPT))
          /\ think_result' = think_result
          /\ step_result' = step_result
          /\ acts' = acts
          /\ tool_calls' = tool_calls]_vars

C21_Witness ==
    /\ pc = "raised"
    /\ raised = "error"
    /\ oracle_reply.kind = "error"
    /\ thinks = 2
    /\ state = RUNNING
    /\ messages[Len(messages)].role = "user"

\* --------------------------------------------------------------- C22
\* C22: every pass of act()'s loop ends with a tool message for its call and
\* never with a raised failure.  A call without a name, or with a name that
\* is not a registered tool, gets the fixed error text, invokes no tool and
\* leaves the agent's state as it was; arguments that do not parse, or a
\* tool that raises, give an observation that starts with "Error: " and
\* names the tool.
C22_BadCallsGiveErrorObservations ==
    [][(pc = "act" /\ executed' # executed) =>
          LET command == CommandAt(tool_calls, act_i)
              m == messages'[Len(messages')]
          IN /\ pc' # "raised"
             /\ raised' = raised
             /\ Len(messages') = Len(messages) + 1
             /\ IsToolMessage(m)
             /\ m.tool_call_id = command.id
             /\ command.name = "" =>
                   /\ m.content = <<"Error: Invalid command format">>
                   /\ invoked' = invoked
                   /\ state' = state
             /\ (command.name # "" /\ command.name \notin AvailableTools) =>
                   /\ m.content = <<"Error: Unknown tool '", command.name, "'">>
                   /\ invoked' = invoked
                   /\ state' = state
             /\ \E out \in Outcomes(command.name, env) :
                   m.content = ExecuteTool(command, out, state, None).observation
             /\ \A out \in Outcomes(command.name, env) :
                   (command.name \in AvailableTools /\ (~out.parses \/ out.raises)) =>
                       LET r == ExecuteTool(command, out, state, None)
                       IN /\ r.observation[1] = "Error: "
                          /\ Mentions(r.observation, command.name)
                          /\ r.state = state]_vars

C22_Witness ==
    /\ Len(messages) >= 4
    /\ messages[Len(messages)].content = ToolProblem("terminate", "tool error")
    /\ messages[Len(messages) - 1].content = <<"Error: Unknown tool '", "frobnicate", "'">>
    /\ invoked = <<messages[Len(messages)].tool_call_id>>
    /\ Len(executed) = 2
    /\ state = RUNNING

\* --------------------------------------------------------------- C23
\* C23: a think() that returns false makes step() produce "no action needed"
\* and ends the run: the loop goes to its return, and no further step() (and
\* so no further think()) follows.
C23_FalseThinkEndsRun ==
    [][(pc = "think" /\ thinks' = thinks + 1 /\ pc' # "raised" /\ ~think_result') =>
          /\ step_result' = NO_ACTION_NEEDED
          /\ pc' = "returned"]_vars

\* --------------------------------------------------------------- C24
IsErrorObservation(content) == HasErrorText(content)

\* C24: whenever a step of the PlanningAgent's plan becomes completed, the
\* tool call recorded for it (the first call of the cycle) was executed
\* without failure: its tool message holds no error observation.
C24_CompletedOnlyAfterSuccess ==
    [][\A i \in DOMAIN active_plan.step_statuses \cap DOMAIN active_plan'.step_statuses :
          (active_plan.step_statuses[i] # COMPLETED
             /\ active_plan'.step_statuses[i] = COMPLETED) =>
             \E k \in 1..Len(messages') :
                /\ IsToolMessage(messages'[k])
                /\ messages'[k].tool_call_id = tool_calls[1].id
                /\ ~IsErrorObservation(messages'[k].content)]_vars

\* --------------------------------------------------------------- C25
Tracked(call) == call.name # "planning" /\ call.name \notin SpecialToolNames

OthersKept(id) ==
    \A x \in DOMAIN step_execution_tracker :
       x # id => /\ x \in DOMAIN step_execution_tracker'
                 /\ step_execution_tracker'[x] = step_execution_tracker[x]

\* C25: a think() that decides to act on a first call of a tool that is
\* neither the planning tool nor special, while a current step is known,
\* files a pending record for that call under its id; the act() that follows
\* sets that record to completed with act()'s result and marks the record's
\* step completed in the plan.  Both hold whatever other records the tracker
\* holds, a record left pending by an earlier cycle included, and neither
\* touches the other records.
C25_PendingThenResolved ==
    [][/\ (ppc = "super" /\ pc' = "act" /\ tool_calls' # <<>>
             /\ Tracked(tool_calls'[1]) /\ planning_step_index # NoIndex) =>
             /\ tool_calls'[1].id \in DOMAIN step_execution_tracker'
             /\ step_execution_tracker'[tool_calls'[1].id] =
                   PendingRecord(planning_step_index, tool_calls'[1].name)
             /\ OthersKept(tool_calls'[1].id)
       /\ (pc = "act" /\ act_i = Len(tool_calls) /\ executed' # executed
             /\ tool_calls[1].id \in DOMAIN step_execution_tracker) =>
             LET id == tool_calls[1].id
                 step == step_execution_tracker[id].step_index
             IN /\ step_execution_tracker[id].status = "pending"
                /\ step_execution_tracker'[id].status = "completed"
                /\ step_execution_tracker'[id].result = step_result'
                /\ step_execution_tracker'[id].step_index = step
                /\ (active_plan.exists /\ step < Len(active_plan.steps)) =>
                      active_plan'.step_statuses[step + 1] = COMPLETED
                /\ OthersKept(id)]_vars

C25_Witness ==
    /\ 0 \in DOMAIN step_execution_tracker
    /\ step_execution_tracker[0].status = "pending"
    /\ Cardinality(DOMAIN step_execution_tracker) = 3
    /\ \A x \in DOMAIN step_execution_tracker \ {0} :
          step_execution_tracker[x].status = "completed"
    /\ Len(active_plan.steps) >= 2
    /\ active_plan.step_statuses[1] = COMPLETED
    /\ active_plan.step_statuses[2] = COMPLETED

\* --------------------------------------------------------------- C26
\* the tool ran and handed back a result whose media field is set
CarriedMedia(name, out) ==
    /\ name \in AvailableTools
    /\ out.parses
    /\ ~out.raises
    /\ Truthy(out.result.base64_image)

\* C26: the tool message appended by a pass of act()'s loop carries media
\* exactly when the result of that pass's own call carried media, and then
\* it is that media; what was captured before the pass is on no later message.
C26_MediaOfOwnResultOnly ==
    [][(pc = "act" /\ executed' # executed) =>
          LET command == CommandAt(tool_calls, act_i)
              m == messages'[Len(messages')]
          IN /\ IsToolMessage(m)
             /\ m.tool_call_id = command.id
             /\ m.base64_image # None <=> CarriedMedia(command.name, last_outcome')
             /\ CarriedMedia(command.name, last_outcome') =>
                   m.base64_image = last_outcome'.result.base64_image]_vars

C26_Witness ==
    /\ acts = 1
    /\ act_i = 3
    /\ Len(messages) >= 2
    /\ IsToolMessage(messages[Len(messages) - 1])
    /\ messages[Len(messages) - 1].base64_image = "img"
    /\ IsToolMessage(messages[Len(messages)])
    /\ messages[Len(messages)].base64_image = None
    /\ last_outcome.result = ToolResult("out", None, None, None)
    /\ Len(invoked) = 2

\* --------------------------------------------------------------- C27
\* every field of the result is empty
AllFieldsEmpty(r) ==
    ~Truthy(r.output) /\ ~Truthy(r.error) /\ ~Truthy(r.base64_image) /\ ~Truthy(r.system)

\* C27: for a call whose tool ran and returned a result, execute_tool's
\* observation is the no-output marker exactly when every field of the result
\* is empty, and an "Observed output" observation whenever some field is not.
C27_MarkerExactlyForEmptyResults ==
    [][(pc = "act" /\ executed' # executed /\ invoked' # invoked /\ ~last_outcome'.raises) =>
          LET command == CommandAt(tool_calls, act_i)
              m == messages'[Len(messages')]
              r == last_outcome'.result
          IN /\ ResultBool(r) <=> ~AllFieldsEmpty(r)
             /\ AllFieldsEmpty(r) <=>
                   m.content = <<"Cmd '", command.name, "' completed with no output">>
             /\ ~AllFieldsEmpty(r) =>
                   /\ Len(m.content) >= 3
                   /\ SubSeq(m.content, 1, 3) =
                         <<"Observed output of cmd '", command.name, "' executed:\n">>]_vars

\* --------------------------------------------------------------- C28
\* C28: an invocation that ran past its own execution timeout ends with a
\* result, never with a raised error; and an invocation ends with a raised
\* error only when its session was never started.
C28_TimeoutIsAResult ==
    \A i \in 1..Len(tool_log) :
       /\ tool_log[i].timeout => tool_log[i].kind = "result"
       /\ tool_log[i].kind = "raised" => ~tool_log[i].established

\* --------------------------------------------------------------- C29
\* the index, in the step list, of the first step that is not_started or
\* in_progress
FirstActiveStep(plan) ==
    LET active == {i \in 0..(Len(plan.steps) - 1) :
                      plan.step_statuses[i + 1] \in GetActiveStatuses}
    IN IF active = {} THEN NoIndex
       ELSE CHOOSE i \in active : \A j \in active : i <= j

\* C29: for every plan, with notes lines and with step texts that hold a
\* status mark included, _get_current_step_index returns the index in the step
\* list of the first step whose status is not_started or in_progress, and None
\* when there is no such step.
C29_ReturnsFirstActiveStep ==
    [][ppc = "index" => planning_step_index' = FirstActiveStep(active_plan)]_vars

\* --------------------------------------------------------------- C30
\* C30: every call of PipelineAgent.execute_tool returns an observation; and
\* when the call names html_to_api_doc without description_text, or
\* html_to_springboot without package_name, and a value is configured, the
\* key is added to the call's arguments and the tool is then executed (the
\* environment letting the arguments parse).
C30_PipelineExecuteToolReturns ==
    [][pipeline_calls' = pipeline_calls + 1 =>
          /\ pipeline_last'.kind = "returned"
          /\ (/\ WantedKey(pipeline_last'.given) # None
              /\ DictGet(output_files, WantedKey(pipeline_last'.given)) # <<>>
              /\ pipeline_last'.out.parses) =>
                /\ WantedKey(pipeline_last'.given) \in pipeline_last'.command.arguments.keys
                /\ pipeline_last'.invoked]_vars

\* --------------------------------------------------------------- C31
\* the call a BrowserAgent is executing returned from its tool
ToolReturned == invoked' # invoked /\ ~last_outcome'.raises

\* C31: in a BrowserAgent, whenever a special tool executes, the browser
\* tool's cleanup is performed before the state is set and the state is then
\* FINISHED; a call of a non-special tool causes neither a cleanup nor a
\* change of state.
C31_CleanupBeforeFinish ==
    [][executed' # executed =>
         LET command == CommandAt(tool_calls, act_i)
         IN /\ (IsSpecialTool(command.name) /\ ToolReturned) =>
                  /\ browser_events' = browser_events \o <<"cleanup", FINISHED>>
                  /\ state' = FINISHED
            /\ ~IsSpecialTool(command.name) =>
                  /\ browser_events' = browser_events
                  /\ state' = state]_vars

\* a non-special tool and then the special tool have executed in one run:
\* one cleanup, followed by the state change
C31_Witness ==
    /\ Len(invoked) = 2
    /\ \E k \in 1..Len(messages) :
          /\ IsToolMessage(messages[k])
          /\ messages[k].name = "browser_use"
          /\ messages[k].tool_call_id = invoked[1]
    /\ browser_events = <<"cleanup", FINISHED>>
    /\ state = FINISHED

\* --------------------------------------------------------------- C32
\* the MCPAgent is at the start of a think()
McpThinkStarts == spc = "begin" /\ pc = "think"

\* C32: when the MCP session is absent or the tool map is empty as
\* MCPAgent.think() starts, or the tool map is empty after the periodic
\* refresh has returned, think() sets the state to FINISHED and returns
\* false, and the oracle is not consulted.
C32_UnavailableEndsThink ==
    [][(/\ McpThinkStarts
        /\ \/ ~mcp_session
           \/ mcp_tool_map = {}
           \/ RefreshDue(current_step) /\ mcp_tool_map' = {} /\ pc' # "raised")
       => /\ state' = FINISHED
          /\ think_result' = FALSE
          /\ step_result' = NO_ACTION_NEEDED
          /\ pc' # "act"
          /\ spc' = "begin"
          /\ thinks' = thinks
          /\ oracle_reply' = oracle_reply]_vars

\* the fifth think() of a run found the tool map empty after its refresh:
\* four consultations of the oracle, none at the fifth step
C32_Witness ==
    /\ current_step = REFRESH_TOOLS_INTERVAL
    /\ mcp_events = <<"shutdown">>
    /\ state = FINISHED
    /\ thinks = REFRESH_TOOLS_INTERVAL - 1
    /\ pc = "returned"

\* --------------------------------------------------------------- C33
\* C33: MCPAgent.run cleans up however the inherited run ended: when it
\* returns or lets the failure propagate, a session that was connected at the
\* end of the loop has been disconnected, and no session is left.
C33_CleanupAfterRun ==
    [][(spc = "begin" /\ pc \in {"returned", "raised"} /\ spc' = "done")
       => /\ ~mcp_session'
          /\ mcp_tool_map' = {}
          /\ mcp_session => mcp_events' = Append(mcp_events, "disconnect")
          /\ pc' = pc /\ raised' = raised]_vars

\* a run that raised with its session connected has disconnected
C33_Witness ==
    /\ spc = "done"
    /\ pc = "raised"
    /\ mcp_events = <<"disconnect">>
    /\ ~mcp_session

\* --------------------------------------------------------------- C34
\* C34: at every think() of a SWEAgent's run, the second and later ones
\* included, the next-step prompt sent to the oracle contains the working
\* directory that pwd reported at that think().
C34_PromptHasCurrentDir ==
    [][(spc = "super" /\ thinks' = thinks + 1)
       => /\ messages'[Len(messages) + 1].role = "user"
          /\ Mentions(messages'[Len(messages) + 1].content, working_dir)]_vars

\* --------------------------------------------------------------- C35
\* the step on which act() executes its last pending call and returns
ActReturns == pc = "act" /\ tool_calls # <<>> /\ act_i = Len(tool_calls) /\ executed' # executed

\* the messages act() has appended when it returns: those after the last
\* message that was in the log when it began
Appended(k) == [i \in 1..k |-> messages'[Len(messages') - k + i]]

\* the observations from the i-th on, each but the first after a blank line
RECURSIVE Concatenated(_, _)
Concatenated(obs, i) ==
    IF i > Len(obs) THEN <<>>
    ELSE (IF i > 1 THEN <<"\n\n">> ELSE <<>>) \o obs[i] \o Concatenated(obs, i + 1)

\* C35: when act() returns after executing k pending calls, the log has grown
\* by exactly k tool messages, the i-th with the id and the tool name of the
\* i-th call, failed calls included, and the value returned is the k
\* observations joined in that order.
C35_OneMessagePerCall ==
    [][ActReturns =>
         LET k == Len(tool_calls)
         IN /\ Len(messages') >= k + 1
            /\ ~IsToolMessage(messages'[Len(messages') - k])
            /\ \A i \in 1..k :
                  /\ IsToolMessage(Appended(k)[i])
                  /\ Appended(k)[i].tool_call_id = tool_calls[i].id
                  /\ Appended(k)[i].name = tool_calls[i].name
            /\ step_result' = Concatenated([i \in 1..k |-> Appended(k)[i].content], 1)]_vars

\* act() has returned from three calls, one of which failed
C35_Witness ==
    /\ pc = "returned"
    /\ Len(tool_calls) = 3
    /\ Len(executed) = 3
    /\ \E i \in 1..Len(messages) :
          IsToolMessage(messages[i]) /\ HasErrorText(messages[i].content)
    /\ \E i \in 1..Len(messages) :
          IsToolMessage(messages[i]) /\ ~HasErrorText(messages[i].content)

\* --------------------------------------------------------------- C36
\* act() has run over the pending calls and returned
ActDone == think_result /\ tool_calls # <<>> /\ pc \in {"think", "returned"}

Ids(seq) == {seq[i] : i \in 1..Len(seq)}

\* C36: act() executes every pending call of the cycle: when it has
\* returned, each call was passed to execute_tool and each call of a
\* registered tool was invoked, the calls that follow a special tool which
\* already set the state to FINISHED included.
C36_AllCallsExecuted ==
    ActDone =>
       \A i \in 1..Len(tool_calls) :
          /\ tool_calls[i].id \in Ids(executed)
          /\ tool_calls[i].name \in AvailableTools => tool_calls[i].id \in Ids(invoked)

\* a special tool finished the run and the call proposed after it was
\* invoked all the same
C36_Witness ==
    /\ ActDone
    /\ state = FINISHED
    /\ \E i \in 1..Len(tool_calls), j \in 1..Len(tool_calls) :
          /\ i < j
          /\ IsSpecialTool(tool_calls[i].name)
          /\ tool_calls[i].id \in Ids(invoked)
          /\ tool_calls[j].name \in AvailableTools
          /\ ~IsSpecialTool(tool_calls[j].name)
          /\ tool_calls[j].id \in Ids(invoked)

\* --------------------------------------------------------------- C37
\* what execute() has seen fail inside its loop and in finalization: a
\* mark_step or get of the store, a run of an executor, the summaries
LoopFailures == {"local", "get raised", "run raised", "oracle summary failed",
                 "agent summary failed"}

\* the failures that end execute() in its own except branch
AbortCauses == {"no primary agent available", "oracle failed", "plan store failed"}

\* execute() without a primary agent: the failure text, and neither the
\* oracle nor the Plan Store was called
NoPrimaryAgentAborts ==
    (fpc = "done" /\ PrimaryAgent = None) =>
       /\ Aborted
       /\ ret[2] = "no primary agent available"
       /\ seen = {}
       /\ plans = [id \in PlanIds |-> NoPlan]
       /\ iterations = 0
       /\ finalize_calls = 0

\* C37 as stated: execute() never raises, every exception raised during plan
\* creation, step selection, step execution or finalization is returned as an
\* 'Execution failed: ...' string, and without a primary agent that string is
\* returned with no oracle or Plan Store call.
C37_AnyExceptionIsExecutionFailed ==
    /\ fpc = "done" => ret # <<>>
    /\ (fpc = "done" /\ seen \cap LoopFailures # {}) => Aborted
    /\ NoPrimaryAgentAborts

\* C37 amended: execute() never raises; it returns 'Execution failed: ...'
\* exactly for a missing primary agent and for an exception of plan creation;
\* exceptions of step selection, step execution and finalization are
\* absorbed where they occur (a failed run yields an 'Error executing step'
\* line in the returned text) and never give 'Execution failed: ...'; without
\* a primary agent the string is returned with no oracle or Plan Store call.
C37_OnlyCreationFailuresAbort ==
    /\ fpc = "done" => ret # <<>>
    /\ Aborted <=> (fpc = "done" /\ Len(ret) = 2 /\ ret[2] \in AbortCauses)
    /\ Aborted => seen \cap LoopFailures = {}
    /\ (fpc = "done" /\ "run raised" \in seen) => Mentions(ret, "Error executing step ")
    /\ NoPrimaryAgentAborts

\* execute() has returned its text after a run of an executor raised
C37_Witness ==
    /\ fpc = "done"
    /\ "run raised" \in seen
    /\ ~Aborted
    /\ Mentions(ret, "Error executing step ")

\* --------------------------------------------------------------- C38
\* the plan holds no step whose status is not_started or in_progress
NoActiveStep ==
    Plan.exists =>
       \A i \in 0..(Len(Plan.steps) - 1) :
          /\ i < Len(Plan.step_statuses)
          /\ StatusOf(Plan.step_statuses, i) \notin {"not_started", "in_progress"}

\* C38: within one execute() call finalize is invoked at most once, and only
\* when the plan has no step that is not_started or in_progress; it is not
\* invoked when the loop ends because the executor reported FINISHED, nor
\* after execute() has returned.
C38_FinalizeAtMostOnce ==
    [][/\ finalize_calls' <= 1
       /\ finalize_calls' # finalize_calls => (fpc = "finalize" /\ NoActiveStep)
       /\ fpc' = "finalize" => (fpc = "select" /\ NoActiveStep /\ finalize_calls = 0)
       /\ (fpc = "running" /\ agent_state'[executor] = FINISHED) =>
             (fpc' = "done" /\ finalize_calls' = finalize_calls)
       /\ fpc = "done" => finalize_calls' = finalize_calls]_vars

\* finalize ran once, after a step whose first run had raised was retried and
\* every step completed
C38_Witness ==
    /\ fpc = "done"
    /\ finalize_calls = 1
    /\ "run raised" \in seen
    /\ Plan.exists
    /\ Len(Plan.steps) >= 2
    /\ NoActiveStep

\* --------------------------------------------------------------- C39
\* C39: no operation of PlanningFlow turns a completed step not_started or
\* in_progress again, and when _get_current_step_info selects step i every
\* step below i is completed or blocked.
C39_CompletedNeverReverts ==
    [][/\ \A i \in 0..(MaxPlanSteps - 1) :
             (/\ Plan.exists
              /\ i < Len(Plan.step_statuses)
              /\ Plan.step_statuses[i + 1] = "completed")
             => (/\ Plan'.exists
                 /\ i < Len(Plan'.step_statuses)
                 /\ Plan'.step_statuses[i + 1] \notin {"not_started", "in_progress"})
       /\ (fpc = "select" /\ fpc' = "running") =>
             /\ current_step_index' \in 0..(Len(Plan'.steps) - 1)
             /\ \A j \in 0..(current_step_index' - 1) :
                   /\ j < Len(Plan'.step_statuses)
                   /\ Plan'.step_statuses[j + 1] \in {"completed", "blocked"}]_vars

\* the last step is selected a second time, its first run having raised,
\* with every step below it completed
C39_Witness ==
    /\ fpc = "running"
    /\ Len(Plan.steps) >= 2
    /\ current_step_index = Len(Plan.steps) - 1
    /\ last_run = "raised"
    /\ \A j \in 0..(current_step_index - 1) : Plan.step_statuses[j + 1] = "completed"
    /\ Plan.step_statuses[current_step_index + 1] = "in_progress"

\* --------------------------------------------------------------- C40
\* the last execute_tool returned, and its tool is the tool of a stage: both
\* calls of update_pipeline_status were made
StageToolReturned ==
    /\ pipeline_calls > 0
    /\ pipeline_last.kind = "returned"
    /\ StepOfTool(pipeline_last.given.name) \in PipelineSteps

StageIs(stage, value) ==
    stage \in DOMAIN pipeline_status /\ pipeline_status[stage] = value

\* the overall status agrees with the five stages, and the stage of the tool
\* that just returned is completed or failed
StatusAgreesWithStages ==
    /\ "status" \in DOMAIN pipeline_status
    /\ pipeline_status["status"] = "completed"
          <=> \A stage \in PipelineSteps : StageIs(stage, "completed")
    /\ pipeline_status["status"] = "failed"
          <=> /\ \E stage \in PipelineSteps : ~StageIs(stage, "completed")
              /\ \E stage \in PipelineSteps : StageIs(stage, "failed")
    /\ pipeline_status["status"] \in {"completed", "failed", "in_progress"}
    /\ \/ StageIs(StepOfTool(pipeline_last.given.name), "completed")
       \/ StageIs(StepOfTool(pipeline_last.given.name), "failed")

C40_Uninitialized ==
    /\ StageToolReturned
    /\ DOMAIN pipeline_status = {"status"}
    /\ pipeline_status["status"] = "completed"

====
